---- MODULE Spec2Model ----
(***************************************************************************)
(* salter: bootstrap of salt clusters in EC2.                              *)
(*                                                                         *)
(* The module models                                                       *)
(*   - the worker pools that apply a per-node function to the target set   *)
(*     (launch, teardown, pForEachValue, updateNodes),                     *)
(*   - the region cache goroutine (GetRegion / regionCacheLoop), its       *)
(*     readers, RegionSGEnsureExists and Region.Refresh,                   *)
(*   - Node.Update, Node.Start and Node.Terminate against what EC2 holds,  *)
(*   - the bring-up of one node (launchNode: Update, Start,                *)
(*     waitForRunning, waitForSsh, waitForCloudInit, distributeKeys),      *)
(*   - launch as a whole: ensureMaster, then the worker pool,              *)
(*   - launchNode and teardownNode as the workers of the pools run them,   *)
(*   - the Node's ssh connection (SshOpen, SshRun, SshUpload, SshClose),   *)
(*   - the security-group rules: parseSGRule, PermArray.contains and the   *)
(*     reconciliation in sgroups,                                          *)
(*   - sgroups over the target nodes with the groups of the region cache,  *)
(*   - launchNode for a minion with distributeKeys call by call,           *)
(*   - launch with the master among the targets, and with the calls the    *)
(*     workers make on the master,                                         *)
(*   - GetRegion and regionCacheLoop under fair scheduling.                *)
(* Each part has its own specification; the variables of the other parts   *)
(* keep their initial values under it.                                     *)
(***************************************************************************)
EXTENDS Integers, Sequences, FiniteSets, TLC

\* ------------------------------------------------------------------------
\* Bounds of the model
\* ------------------------------------------------------------------------
MaxNodes == 3
MaxParallel == 2
MaxCallers == 2
MaxRefreshes == 2
MaxInstances == 3
MaxPolls == 3
MaxProbes == 3

VARIABLES
    \* ---- worker pools ----
    disp,        \* which dispatcher runs
    concurrent,  \* ARG_PARALLEL / concurrent / parallel
    targets,     \* G_TARGETS: the nodes handed to the dispatcher
    failing,     \* the nodes whose per-node function ends in an error
    valIsPtr,    \* pForEachValue: the map's value type is a pointer
    ppc,         \* position of the dispatching goroutine
    toQueue,     \* nodes the range loop has not sent yet
    runQueue,    \* buffer of the run channel (updateNodes only)
    runClosed,   \* close(launchQueue) has happened
    joined,      \* receives done on the shutdown channel
    wg,          \* updateNodes: counter of the WaitGroup
    wpc,         \* position of each worker goroutine
    wnode,       \* the node a worker holds (0: none)
    calls,       \* per node: invocations of the per-node function begun
    returns,     \* per node: invocations that have returned
    err,         \* updateNodes: the shared named result err
    ret,         \* what the dispatching operation returned
    crashed,     \* the process died (panic or fatal runtime error)
    mapWriters,  \* pForEachValue: workers inside SetMapIndex
    \* ---- region cache ----
    regions,     \* regionCacheLoop: regions, name -> *Region (0: absent)
    heap,        \* the Region objects allocated so far, by address
    loop,        \* regionCacheLoop: position, request in hand, region, err
    rf,          \* the running Region.Refresh: its locals and position
    nrefresh,    \* Refresh calls begun so far (names the maps they build)
    callers,     \* the goroutines calling into the cache
    overlap,     \* pairs of callers whose calls were in progress together
    remoteKeys,  \* EC2: the key pairs of the account
    localKeys,   \* the key files in the data directory
    remoteGroups,\* EC2: the security groups of each region
    nextSgId,    \* EC2: the id the next created group gets
    counters,    \* EC2 calls made, per region
    sgWriters,   \* callers inside the write region.SGroups[name] = sg
    \* ---- Node.Update ----
    node,        \* the Node: its Instance field
    ec2,         \* EC2: the instances tagged with the node's name
    upd,         \* the Update call just made: handle before, answer, result
    untagged,    \* EC2: instances that did not get the node's Name tag
    lastOp,      \* the Start or Terminate call just made: node before,
                 \* result, provider calls made
    wt,          \* bringing a node up: position in launchNode /
                 \* ensureMaster and in the waits they call
    \* ---- per-node functions of the pools ----
    mn,          \* per node: position in launchNode / teardownNode, the
                 \* calls made, the step that failed, what was printed
    \* ---- security-group rules ----
    fw           \* sgroups / parseSGRule / contains: inputs and results

dvars == <<disp, concurrent, targets, failing, valIsPtr, ppc, toQueue,
           runQueue, runClosed, joined, wg, wpc, wnode, calls, returns,
           err, ret, crashed, mapWriters>>

rvars == <<regions, heap, loop, rf, nrefresh, callers, overlap, remoteKeys,
           localKeys, remoteGroups, nextSgId, counters, sgWriters>>

nvars == <<node, ec2, upd, untagged, lastOp, wt>>
xvars == <<mn, fw>>
vars == <<dvars, rvars, nvars, xvars>>

Dispatchers == {"launch", "teardown", "pForEachValue", "updateNodes"}
Nodes == 1..MaxNodes
WorkerIds == 1..(MaxParallel + 1)

\* ------------------------------------------------------------------------
\* Worker pools: launch, teardown, pForEachValue, updateNodes
\* ------------------------------------------------------------------------

\* for i := 0; i < ARG_PARALLEL; i++ { go func() {...}() }
NumWorkersOffByOne(c) == c + 1
NumWorkers(c) == c

\* make(chan *Node) in launch, teardown and pForEachValue;
\* make(chan *Node, len(nodes)) in updateNodes
QueueCap(d, n) == IF d = "updateNodes" THEN n ELSE 0

\* the range loop over the targets has ended: close(launchQueue)
CanCloseEarly(q) == TRUE
CanClose(q) == q = {}

\* launch, teardown and tag end in "return nil"; updateNodes returns err
ReturnValue(d, e) == IF d = "updateNodes" THEN e ELSE "nil"

\* pForEachValue: keyIsPointer := mVal.Type().Key().Kind() == reflect.Ptr
\* (the targets are keyed by name, a string)
keyIsPointer == FALSE
\* fType.In(0).Kind() == reflect.Ptr: every caller passes a func(*Node)
fInIsPtr == TRUE
passByRef == ~keyIsPointer /\ fInIsPtr

\* Pointer depth of the argument pForEachValue hands to fVal.Call and of
\* the parameter of f; reflect's Call panics unless the one is assignable
\* to the other.
ValDepth(vp) == IF vp THEN 1 ELSE 0
ArgDepth(vp) == IF passByRef THEN ValDepth(vp) + 1 ELSE ValDepth(vp)
ParamDepth == IF fInIsPtr THEN 1 ELSE 0
CallPanics(vp) == ArgDepth(vp) # ParamDepth

InCall == {w \in WorkerIds : wpc[w] = "call"}

\* ------------------------------------------------------------------------
\* Region cache: data
\* ------------------------------------------------------------------------
RegionNames == {"us-east-1", "us-west-2"}
KeyNames == {"ops", "dev"}
GroupNames == {"web"}
Callers == 1..MaxCallers
KeyReaders == {"RegionKeyExists", "RegionKey"}
GroupReaders == {"RegionSGExists", "RegionSG"}

\* error values: nil, or the error of one fetch of one Refresh call
NoErr == [kind |-> "nil", id |-> 0]
FetchErr(kind, id) == [kind |-> kind, id |-> id]

\* A Go map with the Refresh call that made it (gen 0: the nil map of a
\* Region that was never refreshed).
EmptyMap == [n \in {} |-> 0]
NilMap == [gen |-> 0, m |-> EmptyMap]
MapPut(m, k, v) == [n \in (DOMAIN m) \cup {k} |-> IF n = k THEN v ELSE m[n]]

\* region = &Region{Conn: *conn, dataDir: dataDir}
NewRegion(name) == [name |-> name, Keys |-> NilMap, SGroups |-> NilMap]

\* Fingerprints are strings of hex digits; EC2 reports them in colon-
\* separated pairs.  An MD5 fingerprint (of the public key) has 32 digits,
\* a SHA-1 fingerprint (of the private key) has 40.
Md5Len == 32
Sha1Len == 40
Hex(ch, n) == [i \in 1..n |-> ch]
WithColons(s) ==
    [i \in 1..(Len(s) + (Len(s) \div 2) - 1) |->
       IF i % 3 = 0 THEN ":" ELSE s[i - (i \div 3)]]
\* strings.Replace(keyPair.Fingerprint, ":", "", -1)
IsNotColon(ch) == ch # ":"
StripColons(s) == SelectSeq(s, IsNotColon)

\* A key file of the data directory: absent, or a private key with the
\* two digests LoadKey can compute from it.
NoKeyFile == [present |-> FALSE, pub |-> <<>>, priv |-> <<>>]
KeyFile(ch) == [present |-> TRUE, pub |-> Hex(ch, Md5Len),
                priv |-> Hex(ch, Sha1Len)]

\* LoadKey: the file must exist and its digest must equal the remote
\* fingerprint: the SHA-1 of the private key when the remote fingerprint is
\* longer than 32 characters, the MD5 of the public key otherwise.
LoadKeyOkUnchecked(file, remoteFingerprint) == file.present

LoadKeyOk(file, remoteFingerprint) ==
    /\ file.present
    /\ IF Len(remoteFingerprint) > Md5Len
         THEN file.priv = remoteFingerprint
         ELSE file.pub = remoteFingerprint
\* return &Key{Name: keyName, Key: *privKey, Filename: filename}: the
\* Fingerprint field keeps its zero value.  Against is not a field of Key:
\* it remembers the remote fingerprint the key was validated against.
LoadedKey(name, fp) ==
    [Name |-> name, Fingerprint |-> <<>>, Against |-> fp]

\* Refresh, key goroutine: the map built from the KeyPairs answer.  An entry
\* of r.Keys with the same fingerprint is reused, otherwise the key is
\* loaded from disk and left out when that fails.
KeyReused(cur, kp) ==
    /\ kp.name \in DOMAIN cur
    /\ cur[kp.name].Fingerprint = StripColons(kp.fp)
BuildKeys(cur, remote, files) ==
    LET usable == {kp \in remote :
                     \/ KeyReused(cur, kp)
                     \/ LoadKeyOk(files[kp.name], StripColons(kp.fp))}
        pair(n) == CHOOSE kp \in usable : kp.name = n
    IN  [n \in {kp.name : kp \in usable} |->
           IF KeyReused(cur, pair(n)) THEN cur[n]
           ELSE LoadedKey(n, StripColons(pair(n).fp))]

\* Refresh, key goroutine: the keys LoadKey is called for
LoadKeyCalls(cur, remote) ==
    {kp.name : kp \in {k \in remote : ~KeyReused(cur, k)}}

\* Refresh, group goroutine: the map built from the SecurityGroups answer:
\* the groups outside any VPC, plus the entry for amazon-elb-sg.
AmazonElbSg(regionId) ==
    [Name |-> "amazon-elb-sg", Id |-> 0, OwnerId |-> "amazon-elb",
     RegionId |-> regionId]
BuildGroups(groups, regionId) ==
    LET kept == {g \in groups : ~g.vpc}
        grp(n) == CHOOSE g \in kept : g.name = n
    IN  [n \in {g.name : g \in kept} \cup {"amazon-elb-sg"} |->
           IF n = "amazon-elb-sg"
             THEN AmazonElbSg(regionId)
             ELSE [Name |-> n, Id |-> grp(n).id, OwnerId |-> grp(n).owner,
                   RegionId |-> regionId]]

\* RegionSGEnsureExists: the group as the cache keeps it after the create
\* call: name and id from the answer, no owner
CreatedGroup(name, id, regionId) ==
    [Name |-> name, Id |-> id, OwnerId |-> "", RegionId |-> regionId]

\* the zero values the lookups return for a missing entry
NoKey == [Name |-> "", Fingerprint |-> <<>>, Against |-> <<>>]
NoGroup == [Name |-> "", Id |-> 0, OwnerId |-> "", RegionId |-> ""]

IdleCaller == [pc |-> "idle", name |-> "us-east-1", ptr |-> 0,
               err |-> NoErr, made |-> FALSE, group |-> NoGroup]
IdleLoop == [pc |-> "recv", req |-> 0, region |-> 0, err |-> NoErr]
IdleRefresh == [pc |-> "idle", obj |-> 0, by |-> "none", kdone |-> FALSE,
                gdone |-> FALSE, kerr |-> FALSE, gerr |-> FALSE,
                rKeys |-> EmptyMap, rSgroups |-> EmptyMap, loaded |-> {},
                lastErr |-> NoErr, ret |-> NoErr, gen |-> 0,
                prior |-> NewRegion("us-east-1")]
ZeroCounters == [keyFetches |-> [r \in RegionNames |-> 0],
                 groupFetches |-> [r \in RegionNames |-> 0],
                 fetchFailed |-> [r \in RegionNames |-> FALSE],
                 populated |-> [r \in RegionNames |-> 0],
                 createCalls |-> [r \in RegionNames |-> 0]]

\* the key pairs EC2 reports and the key files on disk
AccountKeyPairs ==
    {[name |-> "ops", fp |-> WithColons(Hex("a", Sha1Len))],
     [name |-> "dev", fp |-> WithColons(Hex("b", Md5Len))]}
DataDirKeyFiles ==
    [n \in KeyNames |-> IF n = "ops" THEN KeyFile("a") ELSE NoKeyFile]
KeyPairOptions ==
    { {[name |-> "ops", fp |-> WithColons(Hex("a", Md5Len))]},
      {[name |-> "ops", fp |-> WithColons(Hex("a", Sha1Len))],
       [name |-> "dev", fp |-> WithColons(Hex("b", Md5Len))]} }
KeyFileOptions ==
    { [n \in KeyNames |-> IF n = "ops" THEN KeyFile("a") ELSE NoKeyFile],
      [n \in KeyNames |-> IF n = "ops" THEN KeyFile("c") ELSE KeyFile("b")] }
\* the security groups EC2 reports for a region before the run
GroupOptions ==
    { {},
      {[name |-> "web", id |-> 1, owner |-> "acct", vpc |-> FALSE]},
      {[name |-> "web", id |-> 1, owner |-> "acct", vpc |-> TRUE]} }

\* ------------------------------------------------------------------------
\* Node.Update: data
\* ------------------------------------------------------------------------
InstanceIds == 1..MaxInstances

\* EC2 hands out instances two to a reservation
ReservationOf(i) == (i + 1) \div 2

\* instance-state-code: pending, running, shutting-down, terminated
StateCodes == {0, 16, 32, 48}

\* node.Instance = nil
NoInstance == [InstanceId |-> 0, Code |-> 0]

\* the filter of Update: "instance-state-code" is "0" or "16"
MatchesFilter(code) == code \in {0, 16}

\* response.Reservations: the reservations that hold a matching instance,
\* each with its matching instances
Reservations(world) ==
    {ReservationOf(i) : i \in {j \in InstanceIds : MatchesFilter(world[j])}}

Instances(world, r) ==
    {i \in InstanceIds : ReservationOf(i) = r /\ MatchesFilter(world[i])}

First(S) == CHOOSE x \in S : \A y \in S : x <= y

\* the value Update leaves in node.Instance when it gives up
ClearedStays(prior) == prior

Cleared(prior) == NoInstance

\* Update with the answer of EC2 (failed: the query itself returned an error)
UpdateOutcome(prior, failed, world) ==
    LET res == Reservations(world)
    IN  IF failed
          THEN [Instance |-> Cleared(prior), ret |-> "query error"]
        ELSE IF Cardinality(res) = 0
          THEN [Instance |-> Cleared(prior), ret |-> "nil"]
        ELSE IF Cardinality(res) > 1
                  \/ Cardinality(Instances(world, First(res))) > 1
          THEN [Instance |-> Cleared(prior),
                ret |-> "unexpected number"]
        ELSE LET i == First(Instances(world, First(res)))
             IN  [Instance |-> [InstanceId |-> i, Code |-> world[i]],
                  ret |-> "nil"]

NoUpdate == [prev |-> NoInstance, failed |-> FALSE, nres |-> 0, ninst |-> 0,
             ret |-> "none"]

\* the Node before anything is known of it: Instance and SshClient nil
NewNode == [Instance |-> NoInstance, SshClient |-> 0]

\* what the region cache answers to Start: whether GetRegion gave a region
\* at all, whether the node's key is in region.Keys and its group in
\* region.SGroups
CacheAnswers == [up : BOOLEAN, key : BOOLEAN, sg : BOOLEAN]

NoOp == [name |-> "none", prev |-> NewNode,
         cache |-> [up |-> TRUE, key |-> TRUE, sg |-> TRUE],
         ok |-> TRUE, ret |-> "none", run |-> 0, tags |-> 0, term |-> {}]

\* node.IsRunning(): live on AWS and running or pending
IsRunningNever(inst) == FALSE

IsRunning(inst) == inst # NoInstance /\ inst.Code < 32

\* what Update can see: the instances that carry the tag Name = node.Name
Named(world, notags) ==
    [i \in InstanceIds |-> IF i \in notags THEN -1 ELSE world[i]]

\* Start: a prerequisite that the cache does not hold stops the call
PrereqIgnored(found) == TRUE

PrereqMet(found) == found

\* Start up to the RunInstances call: the error it returns before making
\* the call, "panic" when the region lookup gave no region (the error of
\* GetRegion is dropped and the nil region is dereferenced), or "run"
StartDecision(n, cache, userDataOk) ==
    IF IsRunning(n.Instance) THEN "nil"
    ELSE IF ~cache.up THEN "panic"
    ELSE IF ~PrereqMet(cache.key) THEN "key is not available locally"
    ELSE IF ~PrereqMet(cache.sg) THEN "security group is not available"
    ELSE IF ~userDataOk THEN "user data"
    ELSE "run"

\* Terminate: the handle after the TerminateInstances call
HandleDropped(ok, prior) == NoInstance

HandleAfterTerminate(ok, prior) == IF ok THEN NoInstance ELSE prior

\* waitForSsh: counter := 10
SshRetries == 10

IdleWait == [pc |-> "idle", found |-> "unknown", cached |-> FALSE,
             polls |-> 0, saw |-> "none",
             last |-> "none", slept |-> FALSE, gap |-> "first",
             counter |-> 0,
             attempts |-> 0, probes |-> 0, lastProbe |-> "none",
             keys |-> "none", ret |-> "none"]

\* node.Instance.State.Name
StateName(code) ==
    IF code = 0 THEN "pending"
    ELSE IF code = 16 THEN "running"
    ELSE IF code = 32 THEN "shutting-down"
    ELSE "terminated"

\* waitForRunning after its Update call: the error of Update, the
\* dereference of node.Instance, the switch on the state name
PollDecision(updateRet, inst) ==
    IF updateRet # "nil" THEN "AWS status update failed"
    ELSE IF inst = NoInstance THEN "panic"
    ELSE IF StateName(inst.Code) = "running" THEN "waitForSsh"
    ELSE IF StateName(inst.Code) = "pending" THEN "continue"
    ELSE "unexpected instance state"

\* what the poll of waitForRunning was answered
Seen(updateRet, inst) ==
    IF updateRet # "nil" THEN "error"
    ELSE IF inst = NoInstance THEN "missing"
    ELSE StateName(inst.Code)

\* node.SshOpen(): up says whether GetRegion gives a region to RegionKey
SshOpenOutcome(n, up, dialOk) ==
    IF ~IsRunning(n.Instance) THEN "node not running"
    ELSE IF n.SshClient # 0 THEN "nil"
    ELSE IF ~up THEN "panic"
    ELSE IF dialOk THEN "nil"
    ELSE "dial error"

\* waitForSsh: counter--; if counter < 0 { return timed out }
SshGivesUp(counter) == counter < 0

\* session.Run(cmd) in SshRun, and the error before it
ProbeResults == {"ok", "exit", "session", "transport"}

\* waitForCloudInit: case *ssh.ExitError: sleep and probe again
ProbeRetriedAlways(result) == result # "ok"

ProbeRetried(result) == result = "exit"

\* the gap before a provider query or an attempt: the first of its loop,
\* one made after a time.Sleep, or one made straight after the last
Gap(first, slept) ==
    IF first THEN "first" ELSE IF slept THEN "slept" ELSE "none"

Finished(w, result) == [w EXCEPT !.pc = "done", !.ret = result]

Min(a, b) == IF a < b THEN a ELSE b

\* a node no worker has been handed yet
IdleMinion == [pc |-> "idle", running |-> FALSE, updates |-> 0,
               starts |-> 0, runs |-> 0, terminates |-> 0,
               failed |-> "none", printed |-> FALSE]

MinionsIdle == mn = [n \in Nodes |-> IdleMinion]

IdleRules == [pc |-> "idle"]

RulesIdle == fw = IdleRules

NodeIdle ==
    /\ wt = IdleWait
    /\ node = NewNode
    /\ ec2 = [i \in InstanceIds |-> -1]
    /\ upd = NoUpdate
    /\ untagged = {}
    /\ lastOp = NoOp

RegionIdle ==
    /\ regions = [r \in RegionNames |-> 0]
    /\ heap = <<>>
    /\ loop = IdleLoop
    /\ rf = IdleRefresh
    /\ nrefresh = 0
    /\ callers = [c \in Callers |-> IdleCaller]
    /\ overlap = {}
    /\ remoteKeys = {}
    /\ localKeys = [n \in KeyNames |-> NoKeyFile]
    /\ remoteGroups = [r \in RegionNames |-> {}]
    /\ nextSgId = 2
    /\ counters = ZeroCounters
    /\ sgWriters = {}

DispatchIdle ==
    /\ disp = "launch"
    /\ concurrent = 1
    /\ targets = {}
    /\ failing = {}
    /\ valIsPtr = TRUE
    /\ ppc = "spawn"
    /\ toQueue = {}
    /\ runQueue = <<>>
    /\ runClosed = FALSE
    /\ joined = 0
    /\ wg = 0
    /\ wpc = [w \in WorkerIds |-> "none"]
    /\ wnode = [w \in WorkerIds |-> 0]
    /\ calls = [n \in Nodes |-> 0]
    /\ returns = [n \in Nodes |-> 0]
    /\ err = "nil"
    /\ ret = "none"
    /\ crashed = FALSE
    /\ mapWriters = {}

InitDispatch ==
    /\ MinionsIdle
    /\ RulesIdle
    /\ RegionIdle
    /\ NodeIdle
    /\ disp \in Dispatchers
    /\ concurrent \in 1..MaxParallel
    /\ \E n \in 0..MaxNodes : targets = 1..n
    /\ failing \in SUBSET targets
    /\ valIsPtr \in (IF disp = "pForEachValue" THEN BOOLEAN ELSE {TRUE})
    /\ ppc = "spawn"
    /\ toQueue = targets
    /\ runQueue = <<>>
    /\ runClosed = FALSE
    /\ joined = 0
    /\ wg = 0
    /\ wpc = [w \in WorkerIds |-> "none"]
    /\ wnode = [w \in WorkerIds |-> 0]
    /\ calls = [n \in Nodes |-> 0]
    /\ returns = [n \in Nodes |-> 0]
    /\ err = "nil"
    /\ ret = "none"
    /\ crashed = FALSE
    /\ mapWriters = {}

\* The dispatching goroutine starts the workers (updateNodes: wg.Add first).
Spawn ==
    /\ ~crashed
    /\ ppc = "spawn"
    /\ ppc' = "enqueue"
    /\ wpc' = [w \in WorkerIds |->
                 IF w <= NumWorkers(concurrent) THEN "recv" ELSE "none"]
    /\ wg' = IF disp = "updateNodes" THEN concurrent ELSE 0
    /\ UNCHANGED <<rvars, nvars, xvars>>
    /\ UNCHANGED <<disp, concurrent, targets, failing, valIsPtr, toQueue,
                   runQueue, runClosed, joined, wnode, calls, returns, err,
                   ret, crashed, mapWriters>>

\* What a worker does with the node it has just received.  launch,
\* teardown and updateNodes call the per-node function at once;
\* pForEachValue first reads the map.
Received(w, n) ==
    /\ wnode' = [wnode EXCEPT ![w] = n]
    /\ IF disp = "pForEachValue"
         THEN /\ wpc' = [wpc EXCEPT ![w] = "index"]
              /\ calls' = calls
         ELSE /\ wpc' = [wpc EXCEPT ![w] = "call"]
              /\ calls' = [calls EXCEPT ![n] = @ + 1]

\* launchQueue <- node met by "for node := range launchQueue": the send and
\* the receive on an unbuffered channel are one step.
Handoff(w) ==
    /\ ~crashed
    /\ ppc = "enqueue"
    /\ QueueCap(disp, Cardinality(targets)) = 0
    /\ wpc[w] = "recv"
    /\ \E n \in toQueue :
         /\ toQueue' = toQueue \ {n}
         /\ Received(w, n)
    /\ UNCHANGED <<rvars, nvars, xvars>>
    /\ UNCHANGED <<disp, concurrent, targets, failing, valIsPtr, ppc,
                   runQueue, runClosed, joined, wg, returns, err, ret,
                   crashed, mapWriters>>

\* updateNodes: runQueue <- node into the buffered channel
Enqueue ==
    /\ ~crashed
    /\ ppc = "enqueue"
    /\ Len(runQueue) < QueueCap(disp, Cardinality(targets))
    /\ \E n \in toQueue :
         /\ toQueue' = toQueue \ {n}
         /\ runQueue' = Append(runQueue, n)
    /\ UNCHANGED <<rvars, nvars, xvars>>
    /\ UNCHANGED <<disp, concurrent, targets, failing, valIsPtr, ppc,
                   runClosed, joined, wg, wpc, wnode, calls, returns, err,
                   ret, crashed, mapWriters>>

\* updateNodes: node, open := <-runQueue with a node in the buffer
BufferedRecv(w) ==
    /\ ~crashed
    /\ wpc[w] = "recv"
    /\ runQueue # <<>>
    /\ runQueue' = Tail(runQueue)
    /\ Received(w, Head(runQueue))
    /\ UNCHANGED <<rvars, nvars, xvars>>
    /\ UNCHANGED <<disp, concurrent, targets, failing, valIsPtr, ppc,
                   toQueue, runClosed, joined, wg, returns, err, ret,
                   crashed, mapWriters>>

\* close(launchQueue) once every target has been sent
Close ==
    /\ ~crashed
    /\ ppc = "enqueue"
    /\ CanClose(toQueue)
    /\ runClosed' = TRUE
    /\ ppc' = "join"
    /\ UNCHANGED <<rvars, nvars, xvars>>
    /\ UNCHANGED <<disp, concurrent, targets, failing, valIsPtr, toQueue,
                   runQueue, joined, wg, wpc, wnode, calls, returns, err,
                   ret, crashed, mapWriters>>

\* pForEachValue: vVal := mVal.MapIndex(kVal), the pointer is built and
\* fVal.Call is entered.  A read of the map while another worker is inside
\* SetMapIndex is unsynchronized: the runtime may end the process.  Call
\* panics when the argument is not assignable to f's parameter.
MapIndexAndCall(w) ==
    /\ ~crashed
    /\ wpc[w] = "index"
    /\ \E fatal \in (IF mapWriters # {} THEN BOOLEAN ELSE {FALSE}) :
         IF fatal \/ CallPanics(valIsPtr)
           THEN /\ crashed' = TRUE
                /\ UNCHANGED <<wpc, calls>>
           ELSE /\ crashed' = FALSE
                /\ wpc' = [wpc EXCEPT ![w] = "call"]
                /\ calls' = [calls EXCEPT ![wnode[w]] = @ + 1]
    /\ UNCHANGED <<rvars, nvars, xvars>>
    /\ UNCHANGED <<disp, concurrent, targets, failing, valIsPtr, ppc,
                   toQueue, runQueue, runClosed, joined, wg, wnode, returns,
                   err, ret, mapWriters>>

\* The per-node function returns.  updateNodes keeps a non-nil result in
\* err; the other dispatchers drop the result.
CallReturn(w) ==
    /\ ~crashed
    /\ wpc[w] = "call"
    /\ returns' = [returns EXCEPT ![wnode[w]] = @ + 1]
    /\ err' = IF disp = "updateNodes" /\ wnode[w] \in failing
                THEN "err" ELSE err
    /\ wpc' = [wpc EXCEPT ![w] =
                 IF disp = "pForEachValue" /\ passByRef
                   THEN "setmap" ELSE "recv"]
    /\ UNCHANGED <<rvars, nvars, xvars>>
    /\ UNCHANGED <<disp, concurrent, targets, failing, valIsPtr, ppc,
                   toQueue, runQueue, runClosed, joined, wg, wnode, calls,
                   ret, crashed, mapWriters>>

\* pForEachValue: mVal.SetMapIndex(kVal, ptr.Elem()) begins.  A write that
\* begins while another write is under way may end the process.
SetMapIndexBegin(w) ==
    /\ ~crashed
    /\ wpc[w] = "setmap"
    /\ \E fatal \in (IF mapWriters # {} THEN BOOLEAN ELSE {FALSE}) :
         crashed' = fatal
    /\ mapWriters' = mapWriters \cup {w}
    /\ wpc' = [wpc EXCEPT ![w] = "setmap2"]
    /\ UNCHANGED <<rvars, nvars, xvars>>
    /\ UNCHANGED <<disp, concurrent, targets, failing, valIsPtr, ppc,
                   toQueue, runQueue, runClosed, joined, wg, wnode, calls,
                   returns, err, ret>>

\* pForEachValue: SetMapIndex has finished
SetMapIndexEnd(w) ==
    /\ ~crashed
    /\ wpc[w] = "setmap2"
    /\ mapWriters' = mapWriters \ {w}
    /\ wpc' = [wpc EXCEPT ![w] = "recv"]
    /\ UNCHANGED <<rvars, nvars, xvars>>
    /\ UNCHANGED <<disp, concurrent, targets, failing, valIsPtr, ppc,
                   toQueue, runQueue, runClosed, joined, wg, wnode, calls,
                   returns, err, ret, crashed>>

\* The range over the closed, drained channel ends.  launch, teardown and
\* pForEachValue go on to "shutdownQueue <- true"; the updateNodes worker
\* returns, which runs the deferred wg.Done().
WorkerExit(w) ==
    /\ ~crashed
    /\ wpc[w] = "recv"
    /\ runClosed
    /\ runQueue = <<>>
    /\ IF disp = "updateNodes"
         THEN /\ wpc' = [wpc EXCEPT ![w] = "exited"]
              /\ wg' = wg - 1
         ELSE /\ wpc' = [wpc EXCEPT ![w] = "send_done"]
              /\ wg' = wg
    /\ UNCHANGED <<rvars, nvars, xvars>>
    /\ UNCHANGED <<disp, concurrent, targets, failing, valIsPtr, ppc,
                   toQueue, runQueue, runClosed, joined, wnode, calls,
                   returns, err, ret, crashed, mapWriters>>

\* "<-shutdownQueue" met by a worker's "shutdownQueue <- true"
JoinRecv(w) ==
    /\ ~crashed
    /\ ppc = "join"
    /\ disp # "updateNodes"
    /\ joined < concurrent
    /\ wpc[w] = "send_done"
    /\ wpc' = [wpc EXCEPT ![w] = "exited"]
    /\ joined' = joined + 1
    /\ UNCHANGED <<rvars, nvars, xvars>>
    /\ UNCHANGED <<disp, concurrent, targets, failing, valIsPtr, ppc,
                   toQueue, runQueue, runClosed, wg, wnode, calls, returns,
                   err, ret, crashed, mapWriters>>

\* The join loop has received ARG_PARALLEL times (updateNodes: wg.Wait()
\* has returned); the dispatching operation returns.
Return ==
    /\ ~crashed
    /\ ppc = "join"
    /\ IF disp = "updateNodes" THEN wg = 0 ELSE joined = concurrent
    /\ ppc' = "returned"
    /\ ret' = ReturnValue(disp, err)
    /\ UNCHANGED <<rvars, nvars, xvars>>
    /\ UNCHANGED <<disp, concurrent, targets, failing, valIsPtr, toQueue,
                   runQueue, runClosed, joined, wg, wpc, wnode, calls,
                   returns, err, crashed, mapWriters>>

NextDispatch ==
    \/ Spawn
    \/ Enqueue
    \/ Close
    \/ Return
    \/ \E w \in WorkerIds : Handoff(w)
    \/ \E w \in WorkerIds : BufferedRecv(w)
    \/ \E w \in WorkerIds : MapIndexAndCall(w)
    \/ \E w \in WorkerIds : CallReturn(w)
    \/ \E w \in WorkerIds : SetMapIndexBegin(w)
    \/ \E w \in WorkerIds : SetMapIndexEnd(w)
    \/ \E w \in WorkerIds : WorkerExit(w)
    \/ \E w \in WorkerIds : JoinRecv(w)

SpecDispatch == InitDispatch /\ [][NextDispatch]_vars

\* ------------------------------------------------------------------------
\* Region cache: GetRegion, regionCacheLoop, Region.Refresh, the readers
\* and RegionSGEnsureExists
\* ------------------------------------------------------------------------
dvarsButCrashed == <<disp, concurrent, targets, failing, valIsPtr, ppc,
                     toQueue, runQueue, runClosed, joined, wg, wpc, wnode,
                     calls, returns, err, ret, mapWriters>>

InProgress(c) == callers[c].pc \notin {"idle", "done"}
Pending(c) == callers[c].pc \in {"send", "wait"}
Bump(f, r) == [f EXCEPT ![r] = @ + 1]

InitRegion ==
    /\ MinionsIdle
    /\ RulesIdle
    /\ DispatchIdle
    /\ NodeIdle
    /\ regions = [r \in RegionNames |-> 0]
    /\ heap = <<>>
    /\ loop = IdleLoop
    /\ rf = IdleRefresh
    /\ nrefresh = 0
    /\ callers = [c \in Callers |-> IdleCaller]
    /\ overlap = {}
    /\ remoteKeys = AccountKeyPairs
    /\ localKeys = DataDirKeyFiles
    /\ \E g \in {g \in GroupOptions : \A x \in g : ~x.vpc} :
         remoteGroups = [r \in RegionNames |-> g]
    /\ nextSgId = 2
    /\ counters = ZeroCounters
    /\ sgWriters = {}

\* A goroutine enters GetRegion, directly or as the first statement of a
\* reader or of RegionSGEnsureExists: the request is built and the
\* goroutine blocks in "G_REGION_CACHE <- &req".
CallerStart(c) ==
    /\ ~crashed
    /\ callers[c].pc = "idle"
    /\ \E r \in RegionNames :
         /\ callers' = [callers EXCEPT ![c] =
                          [IdleCaller EXCEPT !.pc = "send", !.name = r]]
         /\ overlap' = overlap \cup
                         {{c, d} : d \in {x \in Callers :
                                            /\ Pending(x)
                                            /\ callers[x].name = r}}
    /\ UNCHANGED <<regions, heap, loop, rf, nrefresh, remoteKeys, localKeys,
                   remoteGroups, nextSgId, counters, sgWriters>>
    /\ UNCHANGED <<dvars, nvars, xvars>>

\* regionCacheLoop creates and refreshes a region only when it is not in
\* its map
NeedsRefreshAlways(found) == TRUE
NeedsRefresh(found) == ~found

\* regions[req.Name] = region
StoreRegionDropped(m, name, obj) == m
StoreRegion(m, name, obj) == [m EXCEPT ![name] = obj]

\* after a failed Refresh the loop answers the error and continues
\* without storing the region
StoredDespiteError(e) == TRUE
StoredAfter(e) == e = NoErr

\* Region.Refresh begins on the object at address obj: its locals are set
\* up and the two goroutines are started.
RefreshFrame(obj, by, region) ==
    [IdleRefresh EXCEPT !.pc = "fetch", !.obj = obj, !.by = by,
                        !.gen = nrefresh + 1, !.prior = region]

\* req := <-G_REGION_CACHE met by a caller's send; the lookup in regions;
\* for a missing region a new object is made and Refresh is called.
LoopRecv(c) ==
    /\ ~crashed
    /\ loop.pc = "recv"
    /\ callers[c].pc = "send"
    /\ callers' = [callers EXCEPT ![c].pc = "wait"]
    /\ LET name == callers[c].name
           found == regions[name] # 0
       IN  IF NeedsRefresh(found)
             THEN LET obj == IF found THEN regions[name] ELSE Len(heap) + 1
                      region == IF found THEN heap[obj] ELSE NewRegion(name)
                  IN  /\ heap' = IF found THEN heap ELSE Append(heap, region)
                      /\ loop' = [pc |-> "refresh", req |-> c,
                                  region |-> obj, err |-> NoErr]
                      /\ rf' = RefreshFrame(obj, "loop", region)
                      /\ nrefresh' = nrefresh + 1
             ELSE /\ loop' = [pc |-> "reply", req |-> c,
                              region |-> regions[name], err |-> NoErr]
                  /\ UNCHANGED <<heap, rf, nrefresh>>
    /\ UNCHANGED <<regions, overlap, remoteKeys, localKeys, remoteGroups,
                   nextSgId, counters, sgWriters>>
    /\ UNCHANGED <<dvars, nvars, xvars>>

\* lastErr = &err, written by both goroutines of Refresh without
\* synchronization: when both fail either error may be the one kept.
LastErrAfter(cur, e) == IF cur = NoErr THEN {e} ELSE {e, cur}

\* Refresh, first goroutine: r.Conn.KeyPairs(nil, nil), then the new key map
RefreshKeys ==
    /\ ~crashed
    /\ rf.pc = "fetch"
    /\ ~rf.kdone
    /\ LET r == heap[rf.obj].name
       IN  \E ok \in BOOLEAN :
             IF ok
               THEN /\ rf' = [rf EXCEPT !.kdone = TRUE,
                               !.rKeys = BuildKeys(heap[rf.obj].Keys.m,
                                                   remoteKeys, localKeys),
                               !.loaded = LoadKeyCalls(heap[rf.obj].Keys.m,
                                                       remoteKeys)]
                    /\ counters' = [counters EXCEPT
                                      !.keyFetches = Bump(@, r)]
               ELSE /\ \E e \in LastErrAfter(rf.lastErr,
                                             FetchErr("keys", rf.gen)) :
                         rf' = [rf EXCEPT !.kdone = TRUE, !.kerr = TRUE,
                                          !.lastErr = e]
                    /\ counters' = [counters EXCEPT
                                      !.keyFetches = Bump(@, r),
                                      !.fetchFailed[r] = TRUE]
    /\ UNCHANGED <<regions, heap, loop, nrefresh, callers, overlap,
                   remoteKeys, localKeys, remoteGroups, nextSgId, sgWriters>>
    /\ UNCHANGED <<dvars, nvars, xvars>>

\* Refresh, second goroutine: r.Conn.SecurityGroups(nil, nil), then the new
\* group map
RefreshGroups ==
    /\ ~crashed
    /\ rf.pc = "fetch"
    /\ ~rf.gdone
    /\ LET r == heap[rf.obj].name
       IN  \E ok \in BOOLEAN :
             IF ok
               THEN /\ rf' = [rf EXCEPT !.gdone = TRUE,
                               !.rSgroups = BuildGroups(remoteGroups[r], r)]
                    /\ counters' = [counters EXCEPT
                                      !.groupFetches = Bump(@, r)]
               ELSE /\ \E e \in LastErrAfter(rf.lastErr,
                                             FetchErr("groups", rf.gen)) :
                         rf' = [rf EXCEPT !.gdone = TRUE, !.gerr = TRUE,
                                          !.lastErr = e]
                    /\ counters' = [counters EXCEPT
                                      !.groupFetches = Bump(@, r),
                                      !.fetchFailed[r] = TRUE]
    /\ UNCHANGED <<regions, heap, loop, nrefresh, callers, overlap,
                   remoteKeys, localKeys, remoteGroups, nextSgId, sgWriters>>
    /\ UNCHANGED <<dvars, nvars, xvars>>

\* if lastErr != nil { return *lastErr }
RefreshGivesUpNever(e) == FALSE
RefreshGivesUp(e) == e # NoErr

\* Refresh: wg.Wait() has returned with an error recorded: return it
RefreshFail ==
    /\ ~crashed
    /\ rf.pc = "fetch"
    /\ rf.kdone /\ rf.gdone
    /\ RefreshGivesUp(rf.lastErr)
    /\ rf' = [rf EXCEPT !.pc = "returned", !.ret = rf.lastErr]
    /\ UNCHANGED <<regions, heap, loop, nrefresh, callers, overlap,
                   remoteKeys, localKeys, remoteGroups, nextSgId, counters,
                   sgWriters>>
    /\ UNCHANGED <<dvars, nvars, xvars>>

\* Refresh: wg.Wait() has returned without error: r.Keys = rKeys
RefreshCommitKeys ==
    /\ ~crashed
    /\ rf.pc = "fetch"
    /\ rf.kdone /\ rf.gdone
    /\ ~RefreshGivesUp(rf.lastErr)
    /\ heap' = [heap EXCEPT ![rf.obj].Keys = [gen |-> rf.gen, m |-> rf.rKeys]]
    /\ rf' = [rf EXCEPT !.pc = "commit"]
    /\ UNCHANGED <<regions, loop, nrefresh, callers, overlap, remoteKeys,
                   localKeys, remoteGroups, nextSgId, counters, sgWriters>>
    /\ UNCHANGED <<dvars, nvars, xvars>>

\* Refresh: r.SGroups = rSgroups; return nil
RefreshCommitGroups ==
    /\ ~crashed
    /\ rf.pc = "commit"
    /\ heap' = [heap EXCEPT ![rf.obj].SGroups =
                  [gen |-> rf.gen, m |-> rf.rSgroups]]
    /\ rf' = [rf EXCEPT !.pc = "returned", !.ret = NoErr]
    /\ UNCHANGED <<regions, loop, nrefresh, callers, overlap, remoteKeys,
                   localKeys, remoteGroups, nextSgId, counters, sgWriters>>
    /\ UNCHANGED <<dvars, nvars, xvars>>

\* regionCacheLoop sends on req.Chan after a Refresh that failed as well
\* as after one that succeeded
ReplySentOnSuccess(e) == e = NoErr
ReplySent(e) == TRUE

\* regionCacheLoop after region.Refresh(): on an error "req.Chan <- err;
\* continue", otherwise the region is stored (when it was new) and
\* "req.Region = region; req.Chan <- nil" follows.
LoopAfterRefresh ==
    /\ ~crashed
    /\ loop.pc = "refresh"
    /\ rf.pc = "returned"
    /\ rf.by = "loop"
    /\ LET name == heap[loop.region].name
       IN  /\ regions' = IF StoredAfter(rf.ret)
                            THEN StoreRegion(regions, name, loop.region)
                            ELSE regions
           /\ IF rf.ret = NoErr
                THEN /\ loop' = [loop EXCEPT !.pc = "reply", !.err = NoErr]
                     /\ counters' = [counters EXCEPT
                                       !.populated = Bump(@, name)]
                ELSE /\ loop' = IF ReplySent(rf.ret)
                                  THEN [loop EXCEPT !.pc = "reply",
                                                    !.err = rf.ret,
                                                    !.region = 0]
                                  ELSE IdleLoop
                     /\ counters' = counters
           /\ heap' = IF regions'[name] # loop.region
                        THEN SubSeq(heap, 1, Len(heap) - 1) ELSE heap
    /\ rf' = IdleRefresh
    /\ UNCHANGED <<nrefresh, callers, overlap, remoteKeys, localKeys,
                   remoteGroups, nextSgId, sgWriters>>
    /\ UNCHANGED <<dvars, nvars, xvars>>

\* "req.Chan <- err" met by the caller's "err := <-req.Chan": GetRegion
\* returns (req.Region, err).
LoopReply ==
    /\ ~crashed
    /\ loop.pc = "reply"
    /\ callers[loop.req].pc = "wait"
    /\ callers' = [callers EXCEPT ![loop.req].pc = "have",
                                  ![loop.req].ptr = loop.region,
                                  ![loop.req].err = loop.err]
    /\ loop' = IdleLoop
    /\ UNCHANGED <<regions, heap, rf, nrefresh, overlap, remoteKeys,
                   localKeys, remoteGroups, nextSgId, counters, sgWriters>>
    /\ UNCHANGED <<dvars, nvars, xvars>>

\* GetRegion was called directly: the caller has its answer.
GetRegionDone(c) ==
    /\ ~crashed
    /\ callers[c].pc = "have"
    /\ callers' = [callers EXCEPT ![c].pc = "done"]
    /\ UNCHANGED <<regions, heap, loop, rf, nrefresh, overlap, remoteKeys,
                   localKeys, remoteGroups, nextSgId, counters, sgWriters>>
    /\ UNCHANGED <<dvars, nvars, xvars>>

\* RegionKeyExists / RegionKey / RegionSGExists / RegionSG:
\* "region, _ := GetRegion(regionId)" then the lookup in region.Keys or
\* region.SGroups.  The error is dropped: with a nil region the lookup
\* dereferences nil and the process panics.  A lookup in SGroups while
\* RegionSGEnsureExists writes that map is unsynchronized.
ReaderRead(c) ==
    /\ ~crashed
    /\ callers[c].pc = "have"
    /\ \E op \in KeyReaders \cup GroupReaders :
         IF callers[c].ptr = 0
           THEN /\ crashed' = TRUE
                /\ callers' = callers
           ELSE LET region == heap[callers[c].ptr]
                    m == IF op \in KeyReaders
                           THEN region.Keys.m ELSE region.SGroups.m
                    name == IF op \in KeyReaders THEN "ops" ELSE "web"
                    racy == op \in GroupReaders /\ sgWriters # {}
                IN  /\ \E fatal \in (IF racy THEN BOOLEAN ELSE {FALSE}) :
                         crashed' = fatal
                    /\ callers' = [callers EXCEPT
                                     ![c].pc = "done",
                                     ![c].group =
                                       IF op = "RegionSG" /\ name \in DOMAIN m
                                         THEN m[name] ELSE NoGroup]
    /\ UNCHANGED <<regions, heap, loop, rf, nrefresh, overlap, remoteKeys,
                   localKeys, remoteGroups, nextSgId, counters, sgWriters>>
    /\ UNCHANGED <<dvarsButCrashed, nvars, xvars>>

\* RegionSGEnsureExists: "sg, found := region.SGroups[name]"; a group that
\* is found is returned.
EnsureLookup(c) ==
    /\ ~crashed
    /\ callers[c].pc = "have"
    /\ IF callers[c].ptr = 0
         THEN /\ crashed' = TRUE
              /\ callers' = callers
         ELSE LET m == heap[callers[c].ptr].SGroups.m
              IN  /\ \E fatal \in (IF sgWriters # {} THEN BOOLEAN
                                                     ELSE {FALSE}) :
                       crashed' = fatal
                  /\ callers' = [callers EXCEPT
                                   ![c].pc = IF "web" \in DOMAIN m
                                               THEN "done" ELSE "create",
                                   ![c].group = IF "web" \in DOMAIN m
                                                  THEN m["web"] ELSE NoGroup]
    /\ UNCHANGED <<regions, heap, loop, rf, nrefresh, overlap, remoteKeys,
                   localKeys, remoteGroups, nextSgId, counters, sgWriters>>
    /\ UNCHANGED <<dvarsButCrashed, nvars, xvars>>

\* RegionSGEnsureExists: region.Conn.CreateSecurityGroup(sg.SecurityGroup).
\* EC2 answers with the new group or with an error; the error is returned.
EnsureCreate(c) ==
    /\ ~crashed
    /\ callers[c].pc = "create"
    /\ LET r == callers[c].name
       IN  /\ counters' = [counters EXCEPT !.createCalls = Bump(@, r)]
           /\ \E ok \in BOOLEAN :
                IF ok
                  THEN /\ remoteGroups' =
                            [remoteGroups EXCEPT ![r] = @ \cup
                               {[name |-> "web", id |-> nextSgId,
                                 owner |-> "acct", vpc |-> FALSE]}]
                       /\ nextSgId' = nextSgId + 1
                       /\ callers' = [callers EXCEPT
                                        ![c].pc = "insert", ![c].made = TRUE,
                                        ![c].group =
                                          CreatedGroup("web", nextSgId, r)]
                  ELSE /\ callers' = [callers EXCEPT
                                        ![c].pc = "done", ![c].made = TRUE,
                                        ![c].err = FetchErr("create", 0)]
                       /\ UNCHANGED <<remoteGroups, nextSgId>>
    /\ UNCHANGED <<regions, heap, loop, rf, nrefresh, overlap, remoteKeys,
                   localKeys, sgWriters>>
    /\ UNCHANGED <<dvars, nvars, xvars>>

\* RegionSGEnsureExists: "region.SGroups[name] = sg" begins.  The map is
\* shared and the write takes no lock: a write that begins while another
\* is under way may end the process.
EnsureInsertBegin(c) ==
    /\ ~crashed
    /\ callers[c].pc = "insert"
    /\ \E fatal \in (IF sgWriters # {} THEN BOOLEAN ELSE {FALSE}) :
         crashed' = fatal
    /\ sgWriters' = sgWriters \cup {c}
    /\ callers' = [callers EXCEPT ![c].pc = "inserting"]
    /\ UNCHANGED <<regions, heap, loop, rf, nrefresh, overlap, remoteKeys,
                   localKeys, remoteGroups, nextSgId, counters>>
    /\ UNCHANGED <<dvarsButCrashed, nvars, xvars>>

\* RegionSGEnsureExists: the write is done; return &sg, nil
EnsureInsertEnd(c) ==
    /\ ~crashed
    /\ callers[c].pc = "inserting"
    /\ heap' = [heap EXCEPT ![callers[c].ptr].SGroups.m =
                  MapPut(@, "web", callers[c].group)]
    /\ sgWriters' = sgWriters \ {c}
    /\ callers' = [callers EXCEPT ![c].pc = "done"]
    /\ UNCHANGED <<regions, loop, rf, nrefresh, overlap, remoteKeys,
                   localKeys, remoteGroups, nextSgId, counters>>
    /\ UNCHANGED <<dvars, nvars, xvars>>

NextRegion ==
    \/ \E c \in Callers : CallerStart(c)
    \/ \E c \in Callers : LoopRecv(c)
    \/ RefreshKeys
    \/ RefreshGroups
    \/ RefreshFail
    \/ RefreshCommitKeys
    \/ RefreshCommitGroups
    \/ LoopAfterRefresh
    \/ LoopReply
    \/ \E c \in Callers : GetRegionDone(c)
    \/ \E c \in Callers : ReaderRead(c)
    \/ \E c \in Callers : EnsureLookup(c)
    \/ \E c \in Callers : EnsureCreate(c)
    \/ \E c \in Callers : EnsureInsertBegin(c)
    \/ \E c \in Callers : EnsureInsertEnd(c)

SpecRegion == InitRegion /\ [][NextRegion]_vars

\* GetRegion and regionCacheLoop alone: every caller calls GetRegion and
\* returns.  The loop goroutine and the two goroutines of Refresh are
\* scheduled, the calls to EC2 return, and a caller that has its reply
\* goes on.
NextGetRegion ==
    \/ \E c \in Callers : CallerStart(c)
    \/ \E c \in Callers : LoopRecv(c)
    \/ RefreshKeys
    \/ RefreshGroups
    \/ RefreshFail
    \/ RefreshCommitKeys
    \/ RefreshCommitGroups
    \/ LoopAfterRefresh
    \/ LoopReply
    \/ \E c \in Callers : GetRegionDone(c)

FairGetRegion ==
    /\ WF_vars(\E c \in Callers : LoopRecv(c))
    /\ WF_vars(RefreshKeys)
    /\ WF_vars(RefreshGroups)
    /\ WF_vars(RefreshFail)
    /\ WF_vars(RefreshCommitKeys)
    /\ WF_vars(RefreshCommitGroups)
    /\ WF_vars(LoopAfterRefresh)
    /\ WF_vars(LoopReply)
    /\ WF_vars(\E c \in Callers : GetRegionDone(c))

SpecGetRegion == InitRegion /\ [][NextGetRegion]_vars /\ FairGetRegion

\* ------------------------------------------------------------------------
\* Region.Refresh called on a region whatever its maps hold
\* ------------------------------------------------------------------------
InitRefresh ==
    /\ MinionsIdle
    /\ RulesIdle
    /\ DispatchIdle
    /\ NodeIdle
    /\ \E r \in RegionNames :
         /\ regions = [x \in RegionNames |-> IF x = r THEN 1 ELSE 0]
         /\ heap = <<NewRegion(r)>>
    /\ loop = IdleLoop
    /\ rf = IdleRefresh
    /\ nrefresh = 0
    /\ callers = [c \in Callers |-> IdleCaller]
    /\ overlap = {}
    /\ remoteKeys \in KeyPairOptions
    /\ localKeys \in KeyFileOptions
    /\ \E g \in GroupOptions : remoteGroups = [r \in RegionNames |-> g]
    /\ nextSgId = 2
    /\ counters = ZeroCounters
    /\ sgWriters = {}

\* r.Refresh() is called
RefreshCall ==
    /\ ~crashed
    /\ rf.pc = "idle"
    /\ nrefresh < MaxRefreshes
    /\ rf' = RefreshFrame(1, "direct", heap[1])
    /\ nrefresh' = nrefresh + 1
    /\ UNCHANGED <<regions, heap, loop, callers, overlap, remoteKeys,
                   localKeys, remoteGroups, nextSgId, counters, sgWriters>>
    /\ UNCHANGED <<dvars, nvars, xvars>>

\* the call has returned; its caller goes on
RefreshReturn ==
    /\ ~crashed
    /\ rf.pc = "returned"
    /\ rf.by = "direct"
    /\ rf' = IdleRefresh
    /\ UNCHANGED <<regions, heap, loop, nrefresh, callers, overlap,
                   remoteKeys, localKeys, remoteGroups, nextSgId, counters,
                   sgWriters>>
    /\ UNCHANGED <<dvars, nvars, xvars>>

\* Between two calls the account's key pairs, the key files and the
\* region's groups may have changed.
ProviderChanges ==
    /\ ~crashed
    /\ rf.pc = "idle"
    /\ nrefresh > 0
    /\ remoteKeys' \in KeyPairOptions
    /\ localKeys' \in KeyFileOptions
    /\ \E g \in GroupOptions : remoteGroups' = [r \in RegionNames |-> g]
    /\ UNCHANGED <<regions, heap, loop, rf, nrefresh, callers, overlap,
                   nextSgId, counters, sgWriters>>
    /\ UNCHANGED <<dvars, nvars, xvars>>

NextRefresh ==
    \/ RefreshCall
    \/ RefreshKeys
    \/ RefreshGroups
    \/ RefreshFail
    \/ RefreshCommitKeys
    \/ RefreshCommitGroups
    \/ RefreshReturn
    \/ ProviderChanges

SpecRefresh == InitRefresh /\ [][NextRefresh]_vars

\* ------------------------------------------------------------------------
\* Node.Update against what EC2 holds
\* ------------------------------------------------------------------------
InitNode ==
    /\ MinionsIdle
    /\ RulesIdle
    /\ DispatchIdle
    /\ RegionIdle
    /\ node = NewNode
    /\ ec2 = [i \in InstanceIds |-> -1]
    /\ upd = NoUpdate
    /\ untagged = {}
    /\ lastOp = NoOp
    /\ wt = IdleWait

\* an instance tagged with the node's name is started
Ec2Run(i) ==
    /\ ec2[i] = -1
    /\ ec2' = [ec2 EXCEPT ![i] = 0]
    /\ UNCHANGED <<node, upd, untagged, lastOp, wt>>
    /\ UNCHANGED <<dvars, rvars, xvars>>

\* an instance moves on: pending, running, shutting-down, terminated
Ec2Advance(i) ==
    /\ ec2[i] \in {0, 16, 32}
    /\ ec2' = [ec2 EXCEPT ![i] = ec2[i] + 16]
    /\ UNCHANGED <<node, upd, untagged, lastOp, wt>>
    /\ UNCHANGED <<dvars, rvars, xvars>>

\* node.Update(), wherever it is called from
UpdateCall ==
    /\ ~crashed
    /\ \E failed \in BOOLEAN :
         LET seen == Named(ec2, untagged)
             out == UpdateOutcome(node.Instance, failed, seen)
             res == Reservations(seen)
         IN  /\ node' = [node EXCEPT !.Instance = out.Instance]
             /\ upd' = [prev |-> node.Instance,
                        failed |-> failed,
                        nres |-> IF failed THEN 0 ELSE Cardinality(res),
                        ninst |-> IF failed \/ res = {} THEN 0
                                  ELSE Cardinality(Instances(seen,
                                                             First(res))),
                        ret |-> out.ret]
    /\ lastOp' = NoOp
    /\ UNCHANGED <<ec2, untagged>>
    /\ UNCHANGED <<dvarsButCrashed, rvars, xvars>>

\* node.Update()
Update ==
    /\ UpdateCall
    /\ UNCHANGED <<crashed, wt>>

\* node.Start(masterIp), wherever it is called from
StartCall ==
    /\ ~crashed
    /\ LET free == {i \in InstanceIds : ec2[i] = -1}
           rec(cache, good, result, nrun, ntags) ==
               [name |-> "Start", prev |-> node, cache |-> cache,
                ok |-> good, ret |-> result, run |-> nrun,
                tags |-> ntags, term |-> {}]
       IN  IF IsRunning(node.Instance)
             THEN /\ lastOp' = rec(NoOp.cache, TRUE, "nil", 0, 0)
                  /\ UNCHANGED <<node, ec2, untagged, crashed>>
             ELSE \E cache \in CacheAnswers :
                    LET d == StartDecision(node, cache, TRUE)
                    IN  IF d = "panic"
                          THEN /\ crashed' = TRUE
                               /\ lastOp' = rec(cache, TRUE, "panic", 0, 0)
                               /\ UNCHANGED <<node, ec2, untagged>>
                        ELSE IF d # "run"
                          THEN /\ lastOp' = rec(cache, TRUE, d, 0, 0)
                               /\ UNCHANGED <<node, ec2, untagged, crashed>>
                        ELSE
                          \/ /\ lastOp' =
                                  rec(cache, TRUE,
                                      StartDecision(node, cache, FALSE),
                                      0, 0)
                             /\ UNCHANGED <<node, ec2, untagged, crashed>>
                          \/ /\ lastOp' =
                                  rec(cache, FALSE, "launch failed", 1, 0)
                             /\ UNCHANGED <<node, ec2, untagged, crashed>>
                          \/ /\ free # {}
                             /\ \E tagOk \in BOOLEAN :
                                  LET i == First(free)
                                  IN  /\ ec2' = [ec2 EXCEPT ![i] = 0]
                                      /\ node' =
                                           [node EXCEPT !.Instance =
                                              [InstanceId |-> i, Code |-> 0]]
                                      /\ untagged' =
                                           IF tagOk THEN untagged
                                           ELSE untagged \cup {i}
                                      /\ lastOp' =
                                           rec(cache, TRUE,
                                               IF tagOk THEN "nil"
                                               ELSE "failed to apply tags",
                                               1, 1)
                             /\ UNCHANGED crashed
    /\ upd' = NoUpdate
    /\ UNCHANGED <<dvarsButCrashed, rvars, xvars>>

\* node.Start(masterIp)
Start ==
    /\ StartCall
    /\ UNCHANGED wt

\* node.Terminate()
Terminate ==
    /\ ~crashed
    /\ \E ok \in BOOLEAN :
         LET rec(good, result, asked) ==
                 [name |-> "Terminate", prev |-> node, cache |-> NoOp.cache,
                  ok |-> good, ret |-> result, run |-> 0, tags |-> 0,
                  term |-> asked]
             i == node.Instance.InstanceId
         IN  IF ~IsRunning(node.Instance)
               THEN /\ lastOp' = rec(TRUE, "node not running", {})
                    /\ UNCHANGED <<node, ec2>>
               ELSE /\ lastOp' = rec(ok, IF ok THEN "nil"
                                          ELSE "terminate error", {i})
                    /\ node' = [node EXCEPT !.Instance =
                                   HandleAfterTerminate(ok, node.Instance)]
                    /\ ec2' = IF ok /\ ec2[i] \in {0, 16}
                                THEN [ec2 EXCEPT ![i] = 32] ELSE ec2
    /\ upd' = NoUpdate
    /\ UNCHANGED <<untagged, wt>>
    /\ UNCHANGED <<dvars, rvars, xvars>>

NextNode ==
    \/ \E i \in InstanceIds : Ec2Run(i)
    \/ \E i \in InstanceIds : Ec2Advance(i)
    \/ Update
    \/ Start
    \/ Terminate

SpecNode == InitNode /\ [][NextNode]_vars

\* ------------------------------------------------------------------------
\* The Node with its ssh connection: SshOpen, SshRun, SshUpload, SshClose
\* next to Update, Start and Terminate
\* ------------------------------------------------------------------------
\* node.SshOpen(), wherever it is called from: the client is dialled to
\* the address of the instance the node holds
SshOpenCall ==
    \E up, dialOk \in BOOLEAN :
      LET o == SshOpenOutcome(node, up, dialOk)
      IN  /\ crashed' = (o = "panic")
          /\ node' = IF o = "nil" /\ node.SshClient = 0
                       THEN [node EXCEPT !.SshClient =
                               node.Instance.InstanceId]
                       ELSE node

SshFrame ==
    /\ upd' = NoUpdate
    /\ lastOp' = NoOp
    /\ UNCHANGED <<ec2, untagged, wt>>
    /\ UNCHANGED <<dvarsButCrashed, rvars, xvars>>

\* node.SshOpen()
SshOpen ==
    /\ ~crashed
    /\ SshOpenCall
    /\ SshFrame

\* node.SshClose()
SshClose ==
    /\ ~crashed
    /\ node' = [node EXCEPT !.SshClient = 0]
    /\ UNCHANGED crashed
    /\ SshFrame

\* SshRun, SshRunOutput and SshUpload: SshOpen when there is no client,
\* then a session on the client, closed before the call returns
SshCommand ==
    /\ ~crashed
    /\ IF node.SshClient = 0 THEN SshOpenCall
       ELSE UNCHANGED <<node, crashed>>
    /\ SshFrame

\* node.SshRun(cmd)
SshRun == SshCommand

\* node.SshUpload(remoteFilename, data)
SshUpload == SshCommand

NextSsh ==
    \/ \E i \in InstanceIds : Ec2Run(i)
    \/ \E i \in InstanceIds : Ec2Advance(i)
    \/ Update
    \/ Start
    \/ Terminate
    \/ SshOpen
    \/ SshClose
    \/ SshRun
    \/ SshUpload

SpecSsh == InitNode /\ [][NextSsh]_vars

\* ------------------------------------------------------------------------
\* Bringing one node up: Update, Start, waitForRunning, waitForSsh,
\* waitForCloudInit, distributeKeys (launchNode, and ensureMaster for the
\* master)
\* ------------------------------------------------------------------------
InitWait ==
    /\ MinionsIdle
    /\ RulesIdle
    /\ DispatchIdle
    /\ RegionIdle
    /\ node = NewNode
    /\ ec2 = [i \in InstanceIds |-> -1]
    /\ upd = NoUpdate
    /\ untagged = {}
    /\ lastOp = NoOp
    /\ wt = [IdleWait EXCEPT !.pc = "update"]

\* err := node.Update(); on an error the bring-up ends
BringUpUpdate ==
    /\ wt.pc = "update"
    /\ UpdateCall
    /\ wt' = IF upd'.ret # "nil" THEN Finished(wt, "update failed")
             ELSE [wt EXCEPT !.pc = "start"]
    /\ UNCHANGED crashed

\* err = node.Start(...); on an error the bring-up ends
BringUpStart ==
    /\ wt.pc = "start"
    /\ StartCall
    /\ wt' = IF lastOp'.ret = "nil"
               THEN [wt EXCEPT !.pc = "poll",
                               !.cached = lastOp'.run = 1]
             ELSE IF lastOp'.ret = "panic" THEN wt
             ELSE Finished(wt, "start failed")

\* waitForRunning: one turn of its loop
WaitForRunningPoll ==
    /\ wt.pc = "poll"
    /\ UpdateCall
    /\ LET d == PollDecision(upd'.ret, node'.Instance)
           w == [wt EXCEPT !.polls = Min(wt.polls + 1, MaxPolls),
                           !.saw = Seen(upd'.ret, node'.Instance),
                           !.last = "poll",
                           !.gap = Gap(wt.polls = 0, wt.slept),
                           !.slept = FALSE]
       IN  /\ crashed' = (d = "panic")
           /\ wt' = IF d = "panic" THEN w
                    ELSE IF d = "continue" THEN w
                    ELSE IF d = "waitForSsh"
                      THEN [w EXCEPT !.pc = "ssh", !.counter = SshRetries]
                    ELSE Finished(w, d)

\* waitForSsh: one turn of its loop
WaitForSshAttempt ==
    /\ ~crashed
    /\ wt.pc = "ssh"
    /\ \E up, dialOk \in BOOLEAN :
         LET o == SshOpenOutcome(node, up \/ wt.cached, dialOk)
             w == [wt EXCEPT !.attempts = wt.attempts + 1,
                             !.last = "attempt",
                             !.gap = Gap(wt.attempts = 0, wt.slept),
                             !.slept = FALSE]
         IN  IF o = "panic"
               THEN /\ crashed' = TRUE
                    /\ wt' = w
                    /\ UNCHANGED node
             ELSE IF o = "nil"
               THEN /\ node' = [node EXCEPT !.SshClient =
                                  node.Instance.InstanceId]
                    /\ wt' = [w EXCEPT !.pc = "probe", !.cached = TRUE]
                    /\ UNCHANGED crashed
             ELSE /\ wt' = IF SshGivesUp(wt.counter - 1)
                             THEN Finished([w EXCEPT !.counter = @ - 1],
                                           "wait for SSH timed out")
                           ELSE [w EXCEPT !.counter = @ - 1,
                                          !.pc = "sshSleep",
                                          !.cached = wt.cached
                                                     \/ o = "dial error"]
                  /\ UNCHANGED <<node, crashed>>
    /\ UNCHANGED <<ec2, upd, untagged, lastOp>>
    /\ UNCHANGED <<dvarsButCrashed, rvars, xvars>>

\* waitForSsh: time.Sleep(5 * time.Second)
WaitForSshSleep ==
    /\ ~crashed
    /\ wt.pc = "sshSleep"
    /\ wt' = [wt EXCEPT !.pc = "ssh", !.slept = TRUE]
    /\ UNCHANGED <<node, ec2, upd, untagged, lastOp>>
    /\ UNCHANGED <<dvars, rvars, xvars>>

\* waitForCloudInit: one turn of its loop; when it returns, so do
\* waitForSsh, whose deferred SshClose runs, and waitForRunning
WaitForCloudInitProbe ==
    /\ ~crashed
    /\ wt.pc = "probe"
    /\ \E result \in ProbeResults :
         LET w == [wt EXCEPT !.probes = Min(wt.probes + 1, MaxProbes),
                             !.lastProbe = result,
                             !.last = "probe",
                             !.gap = Gap(wt.probes = 0, wt.slept),
                             !.slept = FALSE]
         IN  IF result = "ok"
               THEN /\ wt' = [w EXCEPT !.pc = "keys"]
                    /\ node' = [node EXCEPT !.SshClient = 0]
             ELSE IF ProbeRetried(result)
               THEN /\ wt' = [w EXCEPT !.pc = "probeSleep"]
                    /\ UNCHANGED node
             ELSE /\ wt' = Finished(w, result)
                  /\ node' = [node EXCEPT !.SshClient = 0]
    /\ UNCHANGED <<ec2, upd, untagged, lastOp>>
    /\ UNCHANGED <<dvars, rvars, xvars>>

\* waitForCloudInit: time.Sleep(5 * time.Second)
WaitForCloudInitSleep ==
    /\ ~crashed
    /\ wt.pc = "probeSleep"
    /\ wt' = [wt EXCEPT !.pc = "probe", !.slept = TRUE]
    /\ UNCHANGED <<node, ec2, upd, untagged, lastOp>>
    /\ UNCHANGED <<dvars, rvars, xvars>>

\* distributeKeys and displayNodeInfo: the uploads and commands go over a
\* connection that SshUpload reopens; none of their errors is looked at
DistributeKeys ==
    /\ ~crashed
    /\ wt.pc = "keys"
    /\ \E opened, ok \in BOOLEAN :
         /\ ok => opened
         /\ node' = [node EXCEPT !.SshClient =
                       IF opened THEN node.Instance.InstanceId ELSE 0]
         /\ wt' = [Finished(wt, "nil") EXCEPT
                     !.keys = IF ok THEN "distributed" ELSE "failed"]
    /\ UNCHANGED <<ec2, upd, untagged, lastOp>>
    /\ UNCHANGED <<dvars, rvars, xvars>>

\* another instance with the node's name appears while the node is
\* brought up
Ec2RunMeanwhile(i) ==
    /\ wt.pc \in {"update", "start", "poll"}
    /\ ec2[i] = -1
    /\ ec2' = [ec2 EXCEPT ![i] = 0]
    /\ UNCHANGED <<node, upd, untagged, lastOp, wt>>
    /\ UNCHANGED <<dvars, rvars, xvars>>

\* an instance moves on while the node is brought up
Ec2AdvanceMeanwhile(i) ==
    /\ wt.pc \in {"update", "start", "poll"}
    /\ Ec2Advance(i)

NextWait ==
    \/ BringUpUpdate
    \/ BringUpStart
    \/ WaitForRunningPoll
    \/ WaitForSshAttempt
    \/ WaitForSshSleep
    \/ WaitForCloudInitProbe
    \/ WaitForCloudInitSleep
    \/ DistributeKeys
    \/ \E i \in InstanceIds : Ec2RunMeanwhile(i)
    \/ \E i \in InstanceIds : Ec2AdvanceMeanwhile(i)

SpecWait == InitWait /\ [][NextWait]_vars

\* ------------------------------------------------------------------------
\* launchNode for a minion, with distributeKeys call by call
\* ------------------------------------------------------------------------
\* the calls of distributeKeys in the order of its statements
KeyCalls == <<"GenSaltKey", "master.SshUpload minions_pre",
              "master.SshRun salt-key", "node.SshUpload minion.pub",
              "node.SshUpload minion.pem", "node.SshRun start salt-minion">>

NoKeysYet == [pc |-> "distributeKeys", steps |-> <<>>]

InitLaunchNode ==
    /\ MinionsIdle
    /\ DispatchIdle
    /\ RegionIdle
    /\ node = NewNode
    /\ ec2 = [i \in InstanceIds |-> -1]
    /\ upd = NoUpdate
    /\ untagged = {}
    /\ lastOp = NoOp
    /\ wt = [IdleWait EXCEPT !.pc = "update"]
    /\ fw = NoKeysYet

\* a call of distributeKeys returned: its error is dropped and the next
\* statement runs
KeyCallReturns(ok, after) ==
    /\ wt' = [wt EXCEPT !.pc = after, !.last = "keys"]
    /\ fw' = [fw EXCEPT !.steps =
                Append(@, [call |-> KeyCalls[Len(fw.steps) + 1],
                           ok |-> ok])]

KeysFrame ==
    /\ UNCHANGED <<ec2, upd, untagged, lastOp, mn>>
    /\ UNCHANGED <<dvars, rvars>>

\* a command on the master: a session on the client launch has opened
MasterCommand(after) ==
    /\ \E ok \in BOOLEAN : KeyCallReturns(ok, after)
    /\ UNCHANGED node
    /\ KeysFrame

\* a command on the node: SshOpen when the client is nil, then a session
NodeCommand(after) ==
    /\ \E dialOk, runOk \in BOOLEAN :
         LET o == IF node.SshClient = 0
                    THEN SshOpenOutcome(node, wt.cached, dialOk)
                    ELSE "nil"
         IN  /\ node' = IF o = "nil" /\ node.SshClient = 0
                          THEN [node EXCEPT !.SshClient =
                                  node.Instance.InstanceId]
                          ELSE node
             /\ KeyCallReturns(o = "nil" /\ runOk, after)
    /\ KeysFrame

\* pubKey, privKey, _ := node.GenSaltKey(2048)
GenSaltKey ==
    /\ ~crashed
    /\ wt.pc = "keys"
    /\ \E ok \in BOOLEAN : KeyCallReturns(ok, "masterUpload")
    /\ UNCHANGED node
    /\ KeysFrame

\* master.SshUpload("/etc/salt/pki/master/minions_pre/"+node.Name, pubKey)
MasterUploadPub ==
    /\ ~crashed
    /\ wt.pc = "masterUpload"
    /\ MasterCommand("accept")

\* master.SshRun("/usr/bin/sudo /usr/bin/salt-key -y -a " + node.Name)
MasterAccept ==
    /\ ~crashed
    /\ wt.pc = "accept"
    /\ MasterCommand("nodePub")

\* node.SshUpload("/etc/salt/pki/minion/minion.pub", pubKey)
NodeUploadPub ==
    /\ ~crashed
    /\ wt.pc = "nodePub"
    /\ NodeCommand("nodePem")

\* node.SshUpload("/etc/salt/pki/minion/minion.pem", privKey)
NodeUploadPem ==
    /\ ~crashed
    /\ wt.pc = "nodePem"
    /\ NodeCommand("restart")

\* node.SshRun("/usr/bin/sudo start salt-minion")
NodeRestart ==
    /\ ~crashed
    /\ wt.pc = "restart"
    /\ NodeCommand("info")

\* displayNodeInfo(node): SshRunOutput("uptime") and the line it prints
DisplayNodeInfo ==
    /\ ~crashed
    /\ wt.pc = "info"
    /\ \E dialOk \in BOOLEAN :
         LET o == IF node.SshClient = 0
                    THEN SshOpenOutcome(node, wt.cached, dialOk)
                    ELSE "nil"
         IN  node' = IF o = "nil" /\ node.SshClient = 0
                       THEN [node EXCEPT !.SshClient =
                               node.Instance.InstanceId]
                       ELSE node
    /\ wt' = Finished(wt, "nil")
    /\ UNCHANGED fw
    /\ KeysFrame

NextLaunchNode ==
    \/ BringUpUpdate
    \/ BringUpStart
    \/ WaitForRunningPoll
    \/ WaitForSshAttempt
    \/ WaitForSshSleep
    \/ WaitForCloudInitProbe
    \/ WaitForCloudInitSleep
    \/ GenSaltKey
    \/ MasterUploadPub
    \/ MasterAccept
    \/ NodeUploadPub
    \/ NodeUploadPem
    \/ NodeRestart
    \/ DisplayNodeInfo
    \/ \E i \in InstanceIds : Ec2RunMeanwhile(i)
    \/ \E i \in InstanceIds : Ec2AdvanceMeanwhile(i)

SpecLaunchNode == InitLaunchNode /\ [][NextLaunchNode]_vars

\* ------------------------------------------------------------------------
\* launch: ensureMaster, the connection to the master, then the worker pool
\* ------------------------------------------------------------------------
InitLaunch ==
    /\ MinionsIdle
    /\ RulesIdle
    /\ RegionIdle
    /\ node = NewNode
    /\ ec2 = [i \in InstanceIds |-> -1]
    /\ upd = NoUpdate
    /\ untagged = {}
    /\ lastOp = NoOp
    /\ wt = [IdleWait EXCEPT !.pc = "find"]
    /\ disp = "launch"
    /\ concurrent \in 1..MaxParallel
    /\ \E n \in 0..MaxNodes : targets = 1..n
    /\ failing = {}
    /\ valIsPtr = TRUE
    /\ ppc = "ensure"
    /\ toQueue = targets
    /\ runQueue = <<>>
    /\ runClosed = FALSE
    /\ joined = 0
    /\ wg = 0
    /\ wpc = [w \in WorkerIds |-> "none"]
    /\ wnode = [w \in WorkerIds |-> 0]
    /\ calls = [n \in Nodes |-> 0]
    /\ returns = [n \in Nodes |-> 0]
    /\ err = "nil"
    /\ ret = "none"
    /\ crashed = FALSE
    /\ mapWriters = {}

\* ensureMaster: without a node of the saltmaster role it returns nil
AfterFindAlways(found) == "update"

AfterFind(found) == IF found THEN "update" ELSE "done"

\* masterNode := G_CONFIG.findNodeByRole("saltmaster")
FindMaster ==
    /\ ~crashed
    /\ ppc = "ensure"
    /\ wt.pc = "find"
    /\ \E found \in BOOLEAN :
         wt' = [wt EXCEPT !.pc = AfterFind(found),
                          !.found = IF found THEN "saltmaster" ELSE "none",
                          !.ret = IF AfterFind(found) = "done"
                                    THEN "no saltmaster" ELSE "none"]
    /\ UNCHANGED <<node, ec2, upd, untagged, lastOp>>
    /\ UNCHANGED <<dvars, rvars, xvars>>

\* launch goes on when ensureMaster has returned
EnsureMasterReturned(w) == w.pc = "done"

\* ensureMaster returns masterNode only at its end, nil from every
\* earlier return
MasterNodeAlways(w) == TRUE

MasterNode(w) == w.ret = "nil"

\* masterNode == nil: return fmt.Errorf("missing master node")
LaunchMissingMaster ==
    /\ ~crashed
    /\ ppc = "ensure"
    /\ EnsureMasterReturned(wt)
    /\ ~MasterNode(wt)
    /\ ppc' = "returned"
    /\ ret' = "err"
    /\ UNCHANGED <<disp, concurrent, targets, failing, valIsPtr, toQueue,
                   runQueue, runClosed, joined, wg, wpc, wnode, calls,
                   returns, err, crashed, mapWriters>>
    /\ UNCHANGED <<rvars, nvars, xvars>>

\* delete(G_TARGETS, masterNode.Name); err := masterNode.SshOpen()
LaunchMasterSshOpen ==
    /\ ~crashed
    /\ ppc = "ensure"
    /\ EnsureMasterReturned(wt)
    /\ MasterNode(wt)
    /\ \E up, dialOk \in BOOLEAN :
         LET o == SshOpenOutcome(node, up \/ wt.cached, dialOk)
         IN  IF o = "panic"
               THEN /\ crashed' = TRUE
                    /\ UNCHANGED <<node, ppc, ret>>
             ELSE IF o = "nil"
               THEN /\ node' = [node EXCEPT !.SshClient =
                                  node.Instance.InstanceId]
                    /\ ppc' = "spawn"
                    /\ UNCHANGED <<ret, crashed>>
             ELSE /\ ppc' = "returned"
                  /\ ret' = "err"
                  /\ UNCHANGED <<node, crashed>>
    /\ UNCHANGED <<disp, concurrent, targets, failing, valIsPtr, toQueue,
                   runQueue, runClosed, joined, wg, wpc, wnode, calls,
                   returns, err, mapWriters>>
    /\ UNCHANGED <<ec2, upd, untagged, lastOp, wt>>
    /\ UNCHANGED <<rvars, xvars>>

NextLaunch ==
    \/ FindMaster
    \/ BringUpUpdate
    \/ BringUpStart
    \/ WaitForRunningPoll
    \/ WaitForSshAttempt
    \/ WaitForSshSleep
    \/ WaitForCloudInitProbe
    \/ WaitForCloudInitSleep
    \/ DistributeKeys
    \/ \E i \in InstanceIds : Ec2AdvanceMeanwhile(i)
    \/ LaunchMissingMaster
    \/ LaunchMasterSshOpen
    \/ Spawn
    \/ Close
    \/ Return
    \/ \E w \in WorkerIds : Handoff(w)
    \/ \E w \in WorkerIds : CallReturn(w)
    \/ \E w \in WorkerIds : WorkerExit(w)
    \/ \E w \in WorkerIds : JoinRecv(w)

SpecLaunch == InitLaunch /\ [][NextLaunch]_vars

\* ------------------------------------------------------------------------
\* launch with the calls the workers make on the master in distributeKeys
\* ------------------------------------------------------------------------
\* master.SshUpload / master.SshRun: SshOpen is called only when
\* node.SshClient is nil, the session made for the call is closed, the
\* client is kept
MasterAfterUseClosed(n, up, dialOk) == [n EXCEPT !.SshClient = 0]

MasterAfterUse(n, up, dialOk) ==
    IF n.SshClient = 0 /\ SshOpenOutcome(n, up, dialOk) = "nil"
      THEN [n EXCEPT !.SshClient = n.Instance.InstanceId]
      ELSE n

\* a call of a worker on the master: SshOpen inside it panics when the
\* client is nil and the region cache gives no region
WorkerUsesMaster(w, from, to) ==
    /\ ~crashed
    /\ wpc[w] = from
    /\ \E up, dialOk \in BOOLEAN :
         IF node.SshClient = 0 /\ SshOpenOutcome(node, up, dialOk) = "panic"
           THEN /\ crashed' = TRUE
                /\ UNCHANGED <<node, wpc>>
           ELSE /\ node' = MasterAfterUse(node, up, dialOk)
                /\ wpc' = [wpc EXCEPT ![w] = to]
                /\ UNCHANGED crashed
    /\ UNCHANGED <<disp, concurrent, targets, failing, valIsPtr, ppc,
                   toQueue, runQueue, runClosed, joined, wg, wnode, calls,
                   returns, err, ret, mapWriters>>
    /\ UNCHANGED <<ec2, upd, untagged, lastOp, wt>>
    /\ UNCHANGED <<rvars, xvars>>

\* launchNode: Update, Start and waitForRunning of the worker's node have
\* returned nil and distributeKeys(node, masterNode) has generated the keys
LaunchNodeReachesKeys(w) ==
    /\ ~crashed
    /\ wpc[w] = "call"
    /\ mn[wnode[w]].pc = "idle"
    /\ wpc' = [wpc EXCEPT ![w] = "masterUpload"]
    /\ mn' = [mn EXCEPT ![wnode[w]].pc = "keys"]
    /\ UNCHANGED <<disp, concurrent, targets, failing, valIsPtr, ppc,
                   toQueue, runQueue, runClosed, joined, wg, wnode, calls,
                   returns, err, ret, crashed, mapWriters>>
    /\ UNCHANGED <<rvars, nvars, fw>>

\* master.SshUpload("/etc/salt/pki/master/minions_pre/"+node.Name, pubKey)
WorkerMasterUpload(w) == WorkerUsesMaster(w, "masterUpload", "masterAccept")

\* master.SshRun("/usr/bin/sudo /usr/bin/salt-key -y -a " + node.Name);
\* what is left of launchNode works on the worker's own node
WorkerMasterAccept(w) == WorkerUsesMaster(w, "masterAccept", "call")

NextLaunchMaster ==
    \/ NextLaunch
    \/ \E w \in WorkerIds : LaunchNodeReachesKeys(w)
    \/ \E w \in WorkerIds : WorkerMasterUpload(w)
    \/ \E w \in WorkerIds : WorkerMasterAccept(w)

SpecLaunchMaster == InitLaunch /\ [][NextLaunchMaster]_vars

\* ------------------------------------------------------------------------
\* The per-node functions the pools of launch and teardown run:
\* launchNode and teardownNode
\* ------------------------------------------------------------------------
\* what node.Update() is answered: the query fails, no instance, one
\* instance, or more than one reservation or instance
UpdateAnswers == {"error", "none", "one", "many"}

UpdateResult(answer) == IF answer \in {"error", "many"} THEN "err" ELSE "nil"

\* node.Start() on a node that is not running: the lookup of the region
\* gave nil, a prerequisite is missing, the user data cannot be generated,
\* RunInstances fails, CreateTags fails, or all went well
StartOutcomes == {"panic", "key", "sg", "user data", "launch failed",
                  "tags", "nil"}

\* node.Instance after Start: set once RunInstances has succeeded
StartedInstance(o) == o \in {"tags", "nil"}

\* Node.Start got as far as node.Conn().RunInstances(&runInst)
RunInstancesCalled(o) == o \in {"launch failed", "tags", "nil"}

\* waitForRunning with waitForSsh and waitForCloudInit: node.Instance is
\* nil after a poll, an error of one of the three, or nil
WaitOutcomes == {"panic", "AWS status update failed",
                 "unexpected instance state", "wait for SSH timed out",
                 "session", "transport", "nil"}

\* teardownNode goes on to node.Terminate() after node.Update()
TerminateAfterAny(result) == TRUE

TerminateAfter(result) == result = "nil"

PoolInit(d) ==
    /\ RegionIdle
    /\ NodeIdle
    /\ RulesIdle
    /\ MinionsIdle
    /\ disp = d
    /\ concurrent \in 1..MaxParallel
    /\ \E n \in 0..MaxNodes : targets = 1..n
    /\ failing = {}
    /\ valIsPtr = TRUE
    /\ ppc = "spawn"
    /\ toQueue = targets
    /\ runQueue = <<>>
    /\ runClosed = FALSE
    /\ joined = 0
    /\ wg = 0
    /\ wpc = [w \in WorkerIds |-> "none"]
    /\ wnode = [w \in WorkerIds |-> 0]
    /\ calls = [n \in Nodes |-> 0]
    /\ returns = [n \in Nodes |-> 0]
    /\ err = "nil"
    /\ ret = "none"
    /\ crashed = FALSE
    /\ mapWriters = {}

\* the per-node function returns to the worker's range loop
PerNodeReturns(w) ==
    /\ returns' = [returns EXCEPT ![wnode[w]] = @ + 1]
    /\ wpc' = [wpc EXCEPT ![w] = "recv"]

\* the per-node function ends at a step: errorf / printf, or nothing
Ended(m, step, said) ==
    [m EXCEPT !.pc = "done", !.failed = step, !.printed = said]

PerNodeFrame ==
    /\ UNCHANGED <<disp, concurrent, targets, failing, valIsPtr, ppc,
                   toQueue, runQueue, runClosed, joined, wg, wnode, calls,
                   err, ret, mapWriters, fw>>
    /\ UNCHANGED <<rvars, nvars>>

\* launchNode: err := node.Update()
LaunchNodeUpdate(w) ==
    /\ ~crashed
    /\ disp = "launch"
    /\ wpc[w] = "call"
    /\ mn[wnode[w]].pc = "idle"
    /\ \E answer \in UpdateAnswers :
         LET m == [mn[wnode[w]] EXCEPT !.updates = @ + 1,
                                       !.running = answer = "one"]
         IN  IF UpdateResult(answer) # "nil"
               THEN /\ mn' = [mn EXCEPT ![wnode[w]] =
                                Ended(m, "update", TRUE)]
                    /\ PerNodeReturns(w)
               ELSE /\ mn' = [mn EXCEPT ![wnode[w]] =
                                [m EXCEPT !.pc = "start"]]
                    /\ UNCHANGED <<returns, wpc>>
    /\ UNCHANGED crashed
    /\ PerNodeFrame

\* launchNode: err = node.Start(masterNode.Instance.PrivateIpAddress)
LaunchNodeStart(w) ==
    /\ ~crashed
    /\ disp = "launch"
    /\ wpc[w] = "call"
    /\ mn[wnode[w]].pc = "start"
    /\ \E o \in (IF mn[wnode[w]].running THEN {"nil"} ELSE StartOutcomes) :
         LET m == [mn[wnode[w]] EXCEPT
                     !.starts = @ + 1,
                     !.runs = IF ~mn[wnode[w]].running
                                   /\ RunInstancesCalled(o)
                                THEN @ + 1 ELSE @,
                     !.running = @ \/ StartedInstance(o)]
         IN  IF o = "panic"
               THEN /\ crashed' = TRUE
                    /\ mn' = [mn EXCEPT ![wnode[w]] =
                                [m EXCEPT !.failed = "start"]]
                    /\ UNCHANGED <<returns, wpc>>
             ELSE IF o # "nil"
               THEN /\ mn' = [mn EXCEPT ![wnode[w]] =
                                Ended(m, "start", TRUE)]
                    /\ PerNodeReturns(w)
                    /\ UNCHANGED crashed
             ELSE /\ mn' = [mn EXCEPT ![wnode[w]] =
                              [m EXCEPT !.pc = "wait"]]
                  /\ UNCHANGED <<returns, wpc, crashed>>
    /\ PerNodeFrame

\* launchNode: err = waitForRunning(node)
LaunchNodeWait(w) ==
    /\ ~crashed
    /\ disp = "launch"
    /\ wpc[w] = "call"
    /\ mn[wnode[w]].pc = "wait"
    /\ \E o \in WaitOutcomes :
         IF o = "panic"
           THEN /\ crashed' = TRUE
                /\ mn' = [mn EXCEPT ![wnode[w]].failed = "wait"]
                /\ UNCHANGED <<returns, wpc>>
         ELSE IF o # "nil"
           THEN /\ mn' = [mn EXCEPT ![wnode[w]] =
                            Ended(mn[wnode[w]], "wait", TRUE)]
                /\ PerNodeReturns(w)
                /\ UNCHANGED crashed
         ELSE /\ mn' = [mn EXCEPT ![wnode[w]].pc = "keys"]
              /\ UNCHANGED <<returns, wpc, crashed>>
    /\ PerNodeFrame

\* launchNode: distributeKeys(node, masterNode); displayNodeInfo(node).
\* distributeKeys has no result and looks at no error of GenSaltKey,
\* SshUpload and SshRun.
LaunchNodeKeys(w) ==
    /\ ~crashed
    /\ disp = "launch"
    /\ wpc[w] = "call"
    /\ mn[wnode[w]].pc = "keys"
    /\ \E ok \in BOOLEAN :
         mn' = [mn EXCEPT ![wnode[w]] =
                  Ended(mn[wnode[w]], IF ok THEN "none" ELSE "keys", FALSE)]
    /\ PerNodeReturns(w)
    /\ UNCHANGED crashed
    /\ PerNodeFrame

\* teardownNode: err := node.Update()
TeardownNodeUpdate(w) ==
    /\ ~crashed
    /\ disp = "teardown"
    /\ wpc[w] = "call"
    /\ mn[wnode[w]].pc = "idle"
    /\ \E answer \in UpdateAnswers :
         LET m == [mn[wnode[w]] EXCEPT !.updates = @ + 1,
                                       !.running = answer = "one"]
         IN  IF TerminateAfter(UpdateResult(answer))
               THEN /\ mn' = [mn EXCEPT ![wnode[w]] =
                                [m EXCEPT !.pc = "terminate",
                                          !.failed =
                                            IF UpdateResult(answer) = "nil"
                                              THEN "none" ELSE "update"]]
                    /\ UNCHANGED <<returns, wpc>>
               ELSE /\ mn' = [mn EXCEPT ![wnode[w]] =
                                Ended(m, "update", TRUE)]
                    /\ PerNodeReturns(w)
    /\ UNCHANGED crashed
    /\ PerNodeFrame

\* teardownNode: err = node.Terminate().  A node that is not running gets
\* "node not running" without a call to EC2.
TeardownNodeTerminate(w) ==
    /\ ~crashed
    /\ disp = "teardown"
    /\ wpc[w] = "call"
    /\ mn[wnode[w]].pc = "terminate"
    /\ \E ok \in (IF mn[wnode[w]].running THEN BOOLEAN ELSE {FALSE}) :
         LET m == [mn[wnode[w]] EXCEPT !.terminates = @ + 1,
                                       !.running = @ /\ ~ok]
         IN  mn' = [mn EXCEPT ![wnode[w]] =
                      IF ok THEN [m EXCEPT !.pc = "done"]
                      ELSE Ended(m, "terminate", TRUE)]
    /\ PerNodeReturns(w)
    /\ UNCHANGED crashed
    /\ PerNodeFrame

\* launch from the point where it starts the workers
InitLaunchNodes == PoolInit("launch")

NextLaunchNodes ==
    \/ Spawn
    \/ Close
    \/ Return
    \/ \E w \in WorkerIds : Handoff(w)
    \/ \E w \in WorkerIds : WorkerExit(w)
    \/ \E w \in WorkerIds : JoinRecv(w)
    \/ \E w \in WorkerIds : LaunchNodeUpdate(w)
    \/ \E w \in WorkerIds : LaunchNodeStart(w)
    \/ \E w \in WorkerIds : LaunchNodeWait(w)
    \/ \E w \in WorkerIds : LaunchNodeKeys(w)

SpecLaunchNodes == InitLaunchNodes /\ [][NextLaunchNodes]_vars

\* ------------------------------------------------------------------------
\* launch as a whole at the level of the per-node functions: the master
\* may be one of the targets
\* ------------------------------------------------------------------------
\* delete(G_TARGETS, masterNode.Name)
DispatchedAll(nodes, master) == nodes

Dispatched(nodes, master) == nodes \ {master}

InitLaunchRun ==
    /\ RegionIdle
    /\ NodeIdle
    /\ MinionsIdle
    /\ \E m \in 0..MaxNodes :
         fw = [pc |-> "ensureMaster", master |-> m, ensured |-> "none",
               wasTarget |-> FALSE]
    /\ disp = "launch"
    /\ concurrent \in 1..MaxParallel
    /\ \E n \in 0..MaxNodes : targets = 1..n
    /\ failing = {}
    /\ valIsPtr = TRUE
    /\ ppc = "ensure"
    /\ toQueue = targets
    /\ runQueue = <<>>
    /\ runClosed = FALSE
    /\ joined = 0
    /\ wg = 0
    /\ wpc = [w \in WorkerIds |-> "none"]
    /\ wnode = [w \in WorkerIds |-> 0]
    /\ calls = [n \in Nodes |-> 0]
    /\ returns = [n \in Nodes |-> 0]
    /\ err = "nil"
    /\ ret = "none"
    /\ crashed = FALSE
    /\ mapWriters = {}

LaunchRunFrame ==
    /\ UNCHANGED <<disp, concurrent, failing, valIsPtr, runQueue, runClosed,
                   joined, wg, wpc, wnode, calls, returns, err, mapWriters>>
    /\ UNCHANGED <<rvars, nvars>>

\* what ensureMaster returns after Update, Start and waitForRunning
EnsureMasterResult(answer, o, w) ==
    IF UpdateResult(answer) # "nil" THEN "nil"
    ELSE IF answer = "none" /\ o = "panic" THEN "panic"
    ELSE IF answer = "none" /\ o # "nil" THEN "nil"
    ELSE IF w = "panic" THEN "panic"
    ELSE IF w # "nil" THEN "nil"
    ELSE "node"

\* masterNode := ensureMaster()
EnsureMaster ==
    /\ ~crashed
    /\ ppc = "ensure"
    /\ fw.pc = "ensureMaster"
    /\ IF fw.master = 0
         THEN /\ fw' = [fw EXCEPT !.pc = "ensured", !.ensured = "nil"]
              /\ UNCHANGED <<mn, crashed>>
         ELSE \E answer \in UpdateAnswers, o \in StartOutcomes,
                 w \in WaitOutcomes :
              \E r \in {EnsureMasterResult(answer, o, w)} :
              \E starts \in {UpdateResult(answer) = "nil"
                               /\ answer = "none"} :
                /\ mn' = [mn EXCEPT
                            ![fw.master].updates = @ + 1,
                            ![fw.master].starts =
                               IF starts THEN @ + 1 ELSE @,
                            ![fw.master].runs =
                               IF starts /\ RunInstancesCalled(o)
                                 THEN @ + 1 ELSE @,
                            ![fw.master].running =
                               answer = "one"
                                 \/ (starts /\ StartedInstance(o))]
                /\ crashed' = (r = "panic")
                /\ fw' = IF r = "panic" THEN fw
                         ELSE [fw EXCEPT !.pc = "ensured", !.ensured = r]
    /\ UNCHANGED <<targets, toQueue, ppc, ret>>
    /\ LaunchRunFrame

\* launch between ensureMaster and the workers: the error for a missing
\* master, the delete from G_TARGETS, masterNode.SshOpen()
LaunchAfterEnsure ==
    /\ ~crashed
    /\ ppc = "ensure"
    /\ fw.pc = "ensured"
    /\ fw' = [fw EXCEPT !.pc = "dispatch",
                        !.wasTarget = fw.master \in targets]
    /\ IF fw.ensured = "nil"
         THEN /\ ppc' = "returned"
              /\ ret' = "err"
              /\ UNCHANGED <<targets, toQueue>>
         ELSE /\ targets' = Dispatched(targets, fw.master)
              /\ toQueue' = Dispatched(toQueue, fw.master)
              /\ \E dialOk \in BOOLEAN :
                   IF dialOk THEN ppc' = "spawn" /\ UNCHANGED ret
                   ELSE ppc' = "returned" /\ ret' = "err"
    /\ UNCHANGED <<mn, crashed>>
    /\ LaunchRunFrame

NextLaunchRun ==
    \/ EnsureMaster
    \/ LaunchAfterEnsure
    \/ NextLaunchNodes

SpecLaunchRun == InitLaunchRun /\ [][NextLaunchRun]_vars

InitTeardown == PoolInit("teardown")

NextTeardown ==
    \/ Spawn
    \/ Close
    \/ Return
    \/ \E w \in WorkerIds : Handoff(w)
    \/ \E w \in WorkerIds : WorkerExit(w)
    \/ \E w \in WorkerIds : JoinRecv(w)
    \/ \E w \in WorkerIds : TeardownNodeUpdate(w)
    \/ \E w \in WorkerIds : TeardownNodeTerminate(w)

SpecTeardown == InitTeardown /\ [][NextTeardown]_vars

\* ------------------------------------------------------------------------
\* Security-group rules: parseSGRule
\* ------------------------------------------------------------------------
\* A field of a rule is a text: a sequence of characters.  A word that the
\* code only compares as a whole is written as one element.
Word(s) == <<s>>
Digits == {"0", "1", "2", "3", "4", "5", "6", "7", "8", "9"}

DigitValue(c) ==
    CASE c = "0" -> 0 [] c = "1" -> 1 [] c = "2" -> 2 [] c = "3" -> 3
      [] c = "4" -> 4 [] c = "5" -> 5 [] c = "6" -> 6 [] c = "7" -> 7
      [] c = "8" -> 8 [] c = "9" -> 9

AllDigits(t) == Len(t) > 0 /\ \A i \in 1..Len(t) : t[i] \in Digits

RECURSIVE NatOf(_)
NatOf(t) ==
    IF t = <<>> THEN 0
    ELSE 10 * NatOf(SubSeq(t, 1, Len(t) - 1)) + DigitValue(t[Len(t)])

\* strconv.Atoi: an optional sign, then at least one digit and only digits
Atoi(t) ==
    IF t # <<>> /\ t[1] \in {"+", "-"}
      THEN IF AllDigits(Tail(t))
             THEN [ok |-> TRUE,
                   val |-> IF t[1] = "-" THEN 0 - NatOf(Tail(t))
                           ELSE NatOf(Tail(t))]
             ELSE [ok |-> FALSE, val |-> 0]
    ELSE IF AllDigits(t) THEN [ok |-> TRUE, val |-> NatOf(t)]
    ELSE [ok |-> FALSE, val |-> 0]

MaxPort == 65535

Checked(e, from, to) == [err |-> e, from |-> from, to |-> to]

\* checkNormalPort: else if fromInt < 1
FromPortTooSmallLax(n) == n < 0

FromPortTooSmall(n) == n < 1

checkNormalPort(from, to) ==
    LET f == Atoi(from)
        t == Atoi(to)
    IN  IF ~f.ok THEN Checked("from_port is not an integer", 0, 0)
        ELSE IF FromPortTooSmall(f.val)
          THEN Checked("from_port is less than 1", 0, 0)
        ELSE IF f.val > MaxPort
          THEN Checked("from_port is larger than 65535", 0, 0)
        ELSE IF to = <<>> THEN Checked("nil", f.val, f.val)
        ELSE IF ~t.ok THEN Checked("to_port is not an integer", 0, 0)
        ELSE IF t.val < f.val
          THEN Checked("to_port can not be less than from_port", 0, 0)
        ELSE IF t.val > MaxPort
          THEN Checked("to_port can not be greater than 65535", 0, 0)
        ELSE Checked("nil", f.val, t.val)

checkICMPPort(t, c) ==
    LET fromInt ==
          IF t = Word("*") THEN -1
          ELSE IF t \in {Word("echo_reply"), <<"0">>} THEN 0
          ELSE IF t \in {Word("echo_request"), Word("ping"), <<"8">>}
            THEN 8
          ELSE -2
    IN  IF fromInt = -2 THEN Checked("Unknown icmp type", 0, 0)
        ELSE IF c \in {Word("*"), <<>>, <<"-", "1">>}
          THEN Checked("nil", fromInt, -1)
        ELSE Checked("Unknown code type", 0, 0)

\* checkProto: the validator of the protocol, or the error
checkProto(p) ==
    IF p \in {Word("tcp"), Word("udp"), Word("tcp/udp")} THEN "normal"
    ELSE IF p = Word("icmp") THEN "icmp"
    ELSE "Unknown protocol"

CheckPorts(p, from, to) ==
    IF checkProto(p) = "normal" THEN checkNormalPort(from, to)
    ELSE IF checkProto(p) = "icmp" THEN checkICMPPort(from, to)
    ELSE Checked(checkProto(p), 0, 0)

\* parts := strings.SplitN(rule, ":", 4) and the switch on len(parts):
\* the two port arguments handed to the validator
PortArgs(parts) ==
    IF Len(parts) = 2 THEN << <<>>, <<>> >>
    ELSE IF Len(parts) = 3 THEN << parts[2], <<>> >>
    ELSE << parts[2], parts[3] >>

\* parseSGRule up to the expansion: protocol, fromPort, toPort, match
ParseHead(parts) ==
    IF Len(parts) \notin 2..4
      THEN [err |-> "Unknown rule format", protocol |-> <<>>,
            fromPort |-> 0, toPort |-> 0, match |-> <<>>]
    ELSE LET c == CheckPorts(parts[1], PortArgs(parts)[1],
                             PortArgs(parts)[2])
         IN  [err |-> c.err, protocol |-> parts[1],
              fromPort |-> c.from, toPort |-> c.to,
              match |-> parts[Len(parts)]]

\* the source networks a rule can name; every other match is the name of
\* a security group
Cidrs == {Word("10.0.0.0/8"), Word("0.0.0.0/0")}

\* net.ParseCIDR(match) returned no error
isCIDR(match) == match \in Cidrs

\* matches: every node's SGroup for "*", the match itself otherwise
Matches(match, nodeGroups) ==
    IF match = Word("*") THEN nodeGroups ELSE {match}

\* protocols := []string{protocol}, or tcp and udp for "tcp/udp"
Protocols(protocol) ==
    IF protocol = Word("tcp/udp") THEN <<Word("tcp"), Word("udp")>>
    ELSE <<protocol>>

\* the group RegionSGEnsureExists returns for a name
UserSecurityGroup(name) == [Id |-> <<"sg-">> \o name, Name |-> name]

\* perm := new(ec2.IPPerm) and its fields
IPPerm(protocol, from, to, match) ==
    [Protocol |-> protocol, FromPort |-> from, ToPort |-> to,
     SourceIPs |-> IF isCIDR(match) THEN <<match>> ELSE <<>>,
     SourceGroups |-> IF isCIDR(match) THEN <<>>
                      ELSE <<UserSecurityGroup(match)>>]

\* the inner loop over the protocols, for one match
PermsOf(head, match) ==
    [i \in 1..Len(Protocols(head.protocol)) |->
       IPPerm(Protocols(head.protocol)[i], head.fromPort, head.toPort,
              match)]

\* the outer loop "for match, _ := range matches", the matches taken in
\* the order the map yields them
RECURSIVE Expand(_, _)
Expand(head, order) ==
    IF order = <<>> THEN <<>>
    ELSE PermsOf(head, Head(order)) \o Expand(head, Tail(order))

\* the orders in which a range over a map of these keys can run
Orders(S) ==
    {o \in [1..Cardinality(S) -> S] :
       \A i, j \in 1..Cardinality(S) : i # j => o[i] # o[j]}

\* the rules the parser is given: the fields SplitN yields, one to four
RuleProtos == {Word("tcp"), Word("udp"), Word("tcp/udp"), Word("icmp"),
               Word("gre")}
PortTexts == {<<>>, <<"0">>, <<"1">>, <<"8">>, <<"9">>, <<"5", "0">>,
              <<"1", "0", "0">>, <<"6", "5", "5", "3", "5">>,
              <<"6", "5", "5", "3", "6">>, <<"-", "1">>, Word("*"),
              Word("ping"), Word("echo_reply"), Word("echo_request"),
              Word("x")}
SgNames == {Word("A"), Word("B"), Word("C")}
RuleMatches == Cidrs \cup SgNames \cup {Word("*")}
RuleParts ==
    {<<p>> : p \in RuleProtos}
    \cup {<<p, m>> : p \in RuleProtos, m \in RuleMatches}
    \cup {<<p, a, m>> : p \in RuleProtos, a \in PortTexts,
                        m \in RuleMatches}
    \cup {<<p, a, b, m>> : p \in RuleProtos, a \in PortTexts,
                           b \in PortTexts, m \in RuleMatches}

NoParse == [err |-> "none", fatal |-> FALSE, perms |-> <<>>]

\* parseSGRule(rule, region): the compile error, or fatalf when a group a
\* match names cannot be made, or the permissions
ParseResult(parts, nodeGroups, order, ensureOk) ==
    LET head == ParseHead(parts)
    IN  IF head.err # "nil"
          THEN [err |-> head.err, fatal |-> FALSE, perms |-> <<>>]
        ELSE IF ~ensureOk /\ \E m \in Matches(head.match, nodeGroups) :
                               ~isCIDR(m)
          THEN [err |-> "nil", fatal |-> TRUE, perms |-> <<>>]
        ELSE [err |-> "nil", fatal |-> FALSE,
              perms |-> Expand(head, order)]

InitRules ==
    /\ DispatchIdle
    /\ RegionIdle
    /\ NodeIdle
    /\ MinionsIdle
    /\ \E parts \in RuleParts, groups \in SUBSET SgNames :
         fw = [pc |-> "rule", parts |-> parts, nodeGroups |-> groups,
               res |-> NoParse]

\* perms, err := parseSGRule(rule, sg.RegionId)
ParseSGRule ==
    /\ fw.pc = "rule"
    /\ \E ensureOk \in BOOLEAN :
       \E order \in Orders(Matches(ParseHead(fw.parts).match,
                                   fw.nodeGroups)) :
         fw' = [fw EXCEPT !.pc = "parsed",
                          !.res = ParseResult(fw.parts, fw.nodeGroups,
                                              order, ensureOk)]
    /\ UNCHANGED <<dvars, rvars, nvars, mn>>

NextRules == ParseSGRule

SpecRules == InitRules /\ [][NextRules]_vars

\* ------------------------------------------------------------------------
\* Security groups: PermArray.contains and the reconciliation in sgroups
\* ------------------------------------------------------------------------
\* compareString(s1, s2): every element of s2 is found in s1
compareString(s1, s2) ==
    \A j \in 1..Len(s2) : \E i \in 1..Len(s1) : s2[j] = s1[i]

\* compareSG(s1, s2): every group of s2 has its Id in s1
compareSGOverlap(s1, s2) ==
    s2 = <<>> \/ \E j \in 1..Len(s2) : \E i \in 1..Len(s1) :
                   s1[i].Id = s2[j].Id

compareSG(s1, s2) ==
    \A j \in 1..Len(s2) : \E i \in 1..Len(s1) : s1[i].Id = s2[j].Id

\* one turn of the loop over perms: the switch falls to "return true"
Covers(p, perm) ==
    /\ p.Protocol = perm.Protocol
    /\ p.FromPort = perm.FromPort
    /\ p.ToPort = perm.ToPort
    /\ compareString(p.SourceIPs, perm.SourceIPs)
    /\ compareSG(p.SourceGroups, perm.SourceGroups)

\* perms.contains(perm)
contains(perms, perm) == \E k \in 1..Len(perms) : Covers(perms[k], perm)

\* the permissions contains is tried on
IpLists == {<<>>, <<Word("10.0.0.0/8")>>,
            <<Word("0.0.0.0/0"), Word("10.0.0.0/8")>>}
GroupLists == {<<>>, <<Word("A")>>, <<Word("A"), Word("B")>>,
               <<Word("B"), Word("A")>>, <<Word("A"), Word("C")>>}
GroupsOf(names) == [i \in 1..Len(names) |-> UserSecurityGroup(names[i])]
SomePerms ==
    {[Protocol |-> pr, FromPort |-> 8, ToPort |-> to, SourceIPs |-> ips,
      SourceGroups |-> GroupsOf(gs)] :
       pr \in {Word("tcp"), Word("udp")}, to \in {8, 50},
       ips \in IpLists, gs \in GroupLists}

InitContains ==
    /\ DispatchIdle
    /\ RegionIdle
    /\ NodeIdle
    /\ MinionsIdle
    /\ \E a, b, w \in SomePerms, n \in 0..2 :
         fw = [pc |-> "contains",
               perms |-> SubSeq(<<a, b>>, 1, n),
               perm |-> w,
               found |-> FALSE]

\* if !existingPerms.contains(*perm)
Contains ==
    /\ fw.pc = "contains"
    /\ fw' = [fw EXCEPT !.pc = "answered",
                        !.found = contains(fw.perms, fw.perm)]
    /\ UNCHANGED <<dvars, rvars, nvars, mn>>

NextContains == Contains

SpecContains == InitContains /\ [][NextContains]_vars

\* the rules of the group in the configuration file
SgRules ==
    {<<Word("tcp"), <<"8">>, Word("10.0.0.0/8")>>,
     <<Word("tcp"), <<"8">>, Word("0.0.0.0/0")>>,
     <<Word("tcp"), <<"8">>, Word("A")>>,
     <<Word("tcp"), <<"8">>, Word("B")>>,
     <<Word("tcp/udp"), <<"8">>, <<"5", "0">>, Word("*")>>,
     <<Word("icmp"), Word("ping"), Word("0.0.0.0/0")>>,
     <<Word("tcp"), Word("10.0.0.0/8")>>}

\* what the group holds on EC2 before the first run
LivePerms == {p \in SomePerms : p.Protocol = Word("tcp") /\ p.ToPort = 8}

\* if !existingPerms.contains(*perm) { missingPerms = append(...) }
IsMissingAlways(existing, perm) == TRUE

IsMissing(existing, perm) == ~contains(existing, perm)

\* the order of the matches of one rule
OrderFor(head, order) ==
    IF head.match = Word("*") THEN order ELSE <<head.match>>

\* the loop over sgConf.Rules: the first rule that does not parse ends the
\* run, otherwise the permissions not contained in the live ones
RECURSIVE MissingPerms(_, _, _)
MissingPerms(rules, existing, order) ==
    IF rules = <<>> THEN [err |-> "nil", perms |-> <<>>]
    ELSE LET head == ParseHead(Head(rules))
             rest == MissingPerms(Tail(rules), existing, order)
             IsNew(q) == IsMissing(existing, q)
         IN  IF head.err # "nil" THEN [err |-> head.err, perms |-> <<>>]
             ELSE IF rest.err # "nil" THEN rest
             ELSE [err |-> "nil",
                   perms |-> SelectSeq(Expand(head, OrderFor(head, order)),
                                       IsNew) \o rest.perms]

SamePorts(p, q) ==
    /\ p.Protocol = q.Protocol
    /\ p.FromPort = q.FromPort
    /\ p.ToPort = q.ToPort

\* EC2 after AuthorizeSecurityGroup, when it keeps one entry for each
\* protocol and port range and adds the new sources to it
RECURSIVE Merged(_, _)
Merged(live, added) ==
    IF added = <<>> THEN live
    ELSE LET q == Head(added)
             into == {k \in 1..Len(live) : SamePorts(live[k], q)}
         IN  IF into = {}
               THEN Merged(Append(live, q), Tail(added))
               ELSE LET k == First(into)
                    IN  Merged([live EXCEPT
                                  ![k].SourceIPs = @ \o q.SourceIPs,
                                  ![k].SourceGroups = @ \o q.SourceGroups],
                               Tail(added))

\* EC2 after AuthorizeSecurityGroup(sg.SecurityGroup, missingPerms)
Authorized(live, added, merge) ==
    IF merge THEN Merged(live, added) ELSE live \o added

InitSgroups ==
    /\ DispatchIdle
    /\ RegionIdle
    /\ NodeIdle
    /\ MinionsIdle
    /\ \E r1, r2 \in SgRules, n \in 1..2, p \in LivePerms, k \in 0..1,
          groups \in {{Word("A")}, {Word("A"), Word("B")}} :
         fw = [pc |-> "sgroups",
               rules |-> SubSeq(<<r1, r2>>, 1, n),
               nodeGroups |-> groups,
               live |-> SubSeq(<<p>>, 1, k),
               run |-> 0, missing |-> <<>>, calls |-> 0,
               applied |-> <<>>, added |-> FALSE, fatal |-> FALSE]

\* sgroups for the group of one node: the body of its loop, with the
\* group's permissions as EC2 holds them when the run begins
Sgroups ==
    /\ fw.pc = "sgroups"
    /\ fw.run < 2
    /\ ~fw.fatal
    /\ \E ensureOk, regionOk, authOk, merge \in BOOLEAN :
       \E order \in Orders(fw.nodeGroups) :
         LET m == MissingPerms(fw.rules, fw.live, order)
             f == [fw EXCEPT !.run = @ + 1, !.calls = 0,
                             !.missing = <<>>]
         IN  IF ~ensureOk \/ m.err # "nil"
               THEN fw' = [f EXCEPT !.fatal = TRUE]
             ELSE IF m.perms = <<>> THEN fw' = f
             ELSE IF ~regionOk
               THEN fw' = [f EXCEPT !.fatal = TRUE, !.missing = m.perms]
             ELSE IF ~authOk
               THEN fw' = [f EXCEPT !.fatal = TRUE, !.missing = m.perms,
                                    !.calls = 1]
             ELSE fw' = [f EXCEPT
                           !.missing = m.perms,
                           !.calls = 1,
                           !.applied = @ \o m.perms,
                           !.live = Authorized(fw.live, m.perms, merge)]
    /\ UNCHANGED <<dvars, rvars, nvars, mn>>

\* between two runs somebody adds a permission to the group on EC2
ProviderAdds ==
    /\ fw.pc = "sgroups"
    /\ fw.run = 1
    /\ ~fw.fatal
    /\ ~fw.added
    /\ \E p \in {q \in LivePerms : q.SourceGroups = <<>>} :
         fw' = [fw EXCEPT !.live = <<p>> \o @, !.added = TRUE]
    /\ UNCHANGED <<dvars, rvars, nvars, mn>>

NextSgroups ==
    \/ Sgroups
    \/ ProviderAdds

SpecSgroups == InitSgroups /\ [][NextSgroups]_vars

\* ------------------------------------------------------------------------
\* sgroups over the target nodes, with the groups of the region cache
\* ------------------------------------------------------------------------
\* the Id EC2 gives the group of a name in a region
GroupId(regionId, name) == <<"sg-", regionId>> \o name

\* a group as Refresh puts it in region.SGroups: RegionalSGroup{group,
\* r.Conn.Region.Name}
FetchedGroup(name, regionId, perms) ==
    [Name |-> name, Id |-> GroupId(regionId, name), OwnerId |-> "acct",
     RegionId |-> regionId, IPPerms |-> perms]

\* the entry Refresh adds for amazon-elb-sg
ElbGroup(regionId) ==
    [Name |-> Word("amazon-elb-sg"), Id |-> <<>>, OwnerId |-> "amazon-elb",
     RegionId |-> regionId, IPPerms |-> <<>>]

\* RegionSGEnsureExists after CreateSecurityGroup: the zero value with the
\* name, the region and the SecurityGroup of the answer
MadeGroup(name, regionId) ==
    [Name |-> name, Id |-> GroupId(regionId, name), OwnerId |-> "",
     RegionId |-> regionId, IPPerms |-> <<>>]

\* GetRegion(regionId) for a region the loop has not stored yet: the
\* groups Refresh builds from what EC2 reports
Populated(remote, regionId) ==
    MapPut(remote, Word("amazon-elb-sg"), ElbGroup(regionId))

\* sg, found := region.SGroups[name]
SGFoundNever(groups, name) == FALSE

SGFound(groups, name) == name \in DOMAIN groups

\* RegionSGEnsureExists(name, regionId) on a region the cache holds.  st
\* carries the cache, the CreateSecurityGroup calls made so far and failAt,
\* the call that EC2 refuses (0: none)
RegionSGEnsureExists(st, name, regionId) ==
    IF SGFound(st.cache[regionId], name) THEN st
    ELSE LET called == [st EXCEPT !.calls = Append(@, <<regionId, name>>)]
         IN  IF Len(called.calls) = st.failAt
               THEN [called EXCEPT !.err = TRUE]
               ELSE [called EXCEPT
                       !.cache[regionId] =
                          MapPut(@, name, MadeGroup(name, regionId))]

\* ec2.UserSecurityGroup{Id: sg.Id, Name: sg.Name, OwnerId: sg.OwnerId}
SourceGroup(sg) == [Id |-> sg.Id, Name |-> sg.Name, OwnerId |-> sg.OwnerId]

\* the two loops of parseSGRule flattened: one turn for each match and
\* protocol, in the order they run
RECURSIVE MatchPairs(_, _)
MatchPairs(protocols, order) ==
    IF order = <<>> THEN <<>>
    ELSE [i \in 1..Len(protocols) |->
            [match |-> Head(order), protocol |-> protocols[i]]]
         \o MatchPairs(protocols, Tail(order))

\* the body of the inner loop, one turn: a CIDR becomes a source IP, any
\* other match the group RegionSGEnsureExists returns; fatalf ends the loop
ResolveMatch(st, head, pair, regionId) ==
    LET match == pair.match
        perm == [Protocol |-> pair.protocol,
                 FromPort |-> head.fromPort, ToPort |-> head.toPort,
                 SourceIPs |-> <<>>, SourceGroups |-> <<>>]
        e == RegionSGEnsureExists(st, match, regionId)
    IN  IF st.err THEN st
        ELSE IF isCIDR(match)
          THEN [st EXCEPT !.perms =
                  Append(@, [perm EXCEPT !.SourceIPs = <<match>>])]
        ELSE IF e.err THEN e
        ELSE [e EXCEPT !.perms =
                Append(@, [perm EXCEPT !.SourceGroups =
                   <<SourceGroup(e.cache[regionId][match])>>])]

\* the turns one after the other; each turn starts from the state the
\* turn before it left
RECURSIVE ResolveMatches(_, _, _, _)
ResolveMatches(st, head, pairs, regionId) ==
    IF pairs = <<>> THEN st
    ELSE CHOOSE r \in {ResolveMatches(s, head, Tail(pairs), regionId) :
                         s \in {ResolveMatch(st, head, Head(pairs),
                                              regionId)}} : TRUE

\* the switch on len(parts) returned an error
RejectedNever(head) == FALSE

Rejected(head) == head.err # "nil"

\* parseSGRule after the switch on len(parts): the compile error and
\* nothing else, or the permissions, the cache and the calls after the
\* loops
Resolved(done) ==
    [err |-> "nil", fatal |-> done.err,
     perms |-> IF done.err THEN <<>> ELSE done.perms,
     cache |-> done.cache, calls |-> done.calls]

Compiled(head, regionId, cache, order, failAt) ==
    IF Rejected(head)
      THEN [err |-> head.err, fatal |-> FALSE, perms |-> <<>>,
            cache |-> cache, calls |-> <<>>]
    ELSE Resolved(ResolveMatches(
                    [cache |-> cache, calls |-> <<>>, failAt |-> failAt,
                     err |-> FALSE, perms |-> <<>>],
                    head,
                    MatchPairs(Protocols(head.protocol),
                               OrderFor(head, order)),
                    regionId))

\* parseSGRule(rule, region) with the region cache; order is the order in
\* which the range over the groups of the nodes runs for "*"
CompileRule(parts, regionId, cache, order, failAt) ==
    Compiled(ParseHead(parts), regionId, cache, order, failAt)

Range(q) == {q[i] : i \in 1..Len(q)}

\* the target nodes in the order the range over G_TARGETS yields them
TargetNode(name, sGroup, regionId) ==
    [Name |-> name, SGroup |-> sGroup, RegionId |-> regionId]
TargetLists ==
    {<<TargetNode("n1", g, r)>> : g \in {Word("A"), Word("B")},
                                  r \in RegionNames}
    \cup {<<TargetNode("n1", g1, r1), TargetNode("n2", g2, r2)>> :
            g1 \in {Word("A")}, g2 \in {Word("A"), Word("B")},
            r1 \in RegionNames, r2 \in RegionNames}

\* G_CONFIG.SGroups: the rules of the groups the file defines
RulesOfA ==
    {<< <<Word("tcp"), <<"8">>, Word("10.0.0.0/8")>> >>,
     << <<Word("tcp/udp"), <<"8">>, <<"5", "0">>, Word("C")>> >>,
     << <<Word("tcp"), <<"8">>, Word("*")>> >>,
     << <<Word("tcp"), <<"8">>, Word("C")>>,
        <<Word("udp"), <<"8">>, Word("C")>> >>,
     << <<Word("tcp"), <<"8">>, Word("C")>>,
        <<Word("gre"), <<"8">>, Word("C")>> >>,
     << <<Word("tcp"), <<"0">>, Word("C")>> >>,
     << <<Word("tcp"), Word("C")>> >>,
     << <<Word("tcp")>> >>}
ConfigSGroups ==
    {[g \in {Word("A")} |-> rs] : rs \in RulesOfA}
    \cup {[g \in {Word("A"), Word("B")} |->
             IF g = Word("A") THEN rs
             ELSE << <<Word("tcp"), <<"8">>, Word("A")>> >>] :
            rs \in RulesOfA}

\* the groups EC2 reports for a region when it is populated
TcpPerm(ips, groups) ==
    [Protocol |-> Word("tcp"), FromPort |-> 8, ToPort |-> 8,
     SourceIPs |-> ips, SourceGroups |-> groups]
RemoteGroups(regionId) ==
    {EmptyMap,
     [g \in {Word("A")} |-> FetchedGroup(g, regionId, <<>>)],
     [g \in {Word("A"), Word("C")} |->
        FetchedGroup(g, regionId,
                     IF g = Word("A")
                       THEN <<TcpPerm(<<Word("10.0.0.0/8")>>, <<>>)>>
                       ELSE <<>>)],
     [g \in {Word("A"), Word("B"), Word("C")} |->
        FetchedGroup(g, regionId,
                     IF g = Word("A")
                       THEN <<TcpPerm(<<>>,
                                <<SourceGroup(FetchedGroup(Word("C"),
                                                regionId, <<>>))>>)>>
                       ELSE <<>>)]}

NoCompile == [parts |-> <<>>, regionId |-> "", before |-> EmptyMap,
              after |-> EmptyMap, calls |-> <<>>, err |-> "none",
              fatal |-> FALSE, perms |-> <<>>]

InitSgRun ==
    /\ DispatchIdle
    /\ RegionIdle
    /\ NodeIdle
    /\ MinionsIdle
    /\ \E tl \in TargetLists, conf \in ConfigSGroups,
          remote \in [RegionNames -> UNION {RemoteGroups(r) :
                                              r \in RegionNames}] :
         /\ \A r \in RegionNames : remote[r] \in RemoteGroups(r)
         /\ fw = [pc |-> "node", targets |-> tl, conf |-> conf,
                  remote |-> remote,
                  live |-> [r \in RegionNames |->
                              [g \in DOMAIN remote[r] |->
                                 remote[r][g].IPPerms]],
                  cache |-> EmptyMap,
                  seen_groups |-> EmptyMap, setup_groups |-> {},
                  i |-> 1, j |-> 0, sg |-> MadeGroup(<<>>, ""),
                  missingPerms |-> <<>>,
                  creates |-> <<>>, auths |-> <<>>, last |-> NoCompile]

\* GetRegion(regionId) as sgroups sees it: the cache after the call, or
\* nil when the region had to be populated and Refresh failed
GetRegionGroups(f, regionId, refreshOk) ==
    IF regionId \in DOMAIN f.cache THEN [ok |-> TRUE, cache |-> f.cache]
    ELSE IF refreshOk
      THEN [ok |-> TRUE,
            cache |-> MapPut(f.cache, regionId,
                             Populated(f.remote[regionId], regionId))]
    ELSE [ok |-> FALSE, cache |-> f.cache]

\* for _, node := range G_TARGETS: the body of the loop down to the lookup
\* of the group in G_CONFIG.SGroups
SgroupsNode ==
    /\ fw.pc = "node"
    /\ fw.i <= Len(fw.targets)
    /\ \E refreshOk \in BOOLEAN, failAt \in 0..1 :
         LET tn == fw.targets[fw.i]
             sGroup == tn.SGroup
             onward == [fw EXCEPT !.i = @ + 1]
             got == GetRegionGroups(fw, tn.RegionId, refreshOk)
             e == RegionSGEnsureExists(
                    [cache |-> got.cache, calls |-> <<>>,
                     failAt |-> failAt, err |-> FALSE],
                    sGroup, tn.RegionId)
             ensured == [fw EXCEPT !.cache = e.cache,
                                   !.creates = @ \o e.calls]
             sg == IF sGroup \in DOMAIN fw.seen_groups
                     THEN fw.seen_groups[sGroup]
                     ELSE e.cache[tn.RegionId][sGroup]
             kept == IF sGroup \in DOMAIN fw.seen_groups THEN fw
                     ELSE [ensured EXCEPT !.seen_groups =
                                             MapPut(@, sGroup, sg)]
         IN  IF sGroup \in fw.setup_groups THEN fw' = onward
             ELSE IF sGroup \notin DOMAIN fw.seen_groups /\ ~got.ok
               THEN fw' = [fw EXCEPT !.pc = "panic"]
             ELSE IF sGroup \notin DOMAIN fw.seen_groups /\ e.err
               THEN fw' = [ensured EXCEPT !.pc = "fatal"]
             ELSE IF sGroup \notin DOMAIN fw.conf
               THEN fw' = [kept EXCEPT !.i = @ + 1]
             ELSE fw' = [kept EXCEPT !.pc = "rule", !.j = 1, !.sg = sg,
                                     !.missingPerms = <<>>]
    /\ UNCHANGED <<dvars, rvars, nvars, mn>>

\* for _, rule := range sgConf.Rules: one turn
SgroupsRule ==
    /\ fw.pc = "rule"
    /\ fw.j <= Len(fw.conf[fw.sg.Name])
    /\ \E failAt \in 0..2 :
       \E order \in Orders({n.SGroup : n \in Range(fw.targets)}) :
       \E c \in {CompileRule(fw.conf[fw.sg.Name][fw.j], fw.sg.RegionId,
                              fw.cache, order, failAt)} :
       \E f \in {[fw EXCEPT
                     !.cache = c.cache,
                     !.creates = @ \o c.calls,
                     !.last = [parts |-> fw.conf[fw.sg.Name][fw.j],
                               regionId |-> fw.sg.RegionId,
                               before |-> fw.cache[fw.sg.RegionId],
                               after |-> c.cache[fw.sg.RegionId],
                               calls |-> c.calls, err |-> c.err,
                               fatal |-> c.fatal, perms |-> c.perms]]} :
         LET IsNew(q) == IsMissing(fw.sg.IPPerms, q)
         IN  IF c.err # "nil" \/ c.fatal
               THEN fw' = [f EXCEPT !.pc = "fatal"]
             ELSE fw' = [f EXCEPT
                           !.j = @ + 1,
                           !.missingPerms = @ \o SelectSeq(c.perms, IsNew)]
    /\ UNCHANGED <<dvars, rvars, nvars, mn>>

\* if len(missingPerms) > 0
HasMissingAlways(missingPerms) == TRUE

HasMissing(missingPerms) == Len(missingPerms) > 0

\* if len(missingPerms) > 0 { ... AuthorizeSecurityGroup ... } and
\* setup_groups[sGroup] = true
SgroupsAuthorize ==
    /\ fw.pc = "rule"
    /\ fw.j > Len(fw.conf[fw.sg.Name])
    /\ \E authOk \in BOOLEAN :
         LET regionId == fw.sg.RegionId
             name == fw.sg.Name
             call == [regionId |-> regionId, group |-> fw.sg.Id,
                      name |-> name, perms |-> fw.missingPerms]
             onward == [fw EXCEPT !.pc = "node", !.i = @ + 1,
                                !.setup_groups = @ \cup {name}]
         IN  IF ~HasMissing(fw.missingPerms) THEN fw' = onward
             ELSE IF ~authOk
               THEN fw' = [fw EXCEPT !.pc = "fatal",
                                     !.auths = Append(@, call)]
             ELSE fw' = [onward EXCEPT
                           !.auths = Append(@, call),
                           !.live[regionId] =
                              MapPut(@, name,
                                     (IF name \in DOMAIN @ THEN @[name]
                                      ELSE <<>>) \o fw.missingPerms)]
    /\ UNCHANGED <<dvars, rvars, nvars, mn>>

\* return nil
SgroupsReturn ==
    /\ fw.pc = "node"
    /\ fw.i > Len(fw.targets)
    /\ fw' = [fw EXCEPT !.pc = "returned"]
    /\ UNCHANGED <<dvars, rvars, nvars, mn>>

NextSgRun ==
    \/ SgroupsNode
    \/ SgroupsRule
    \/ SgroupsAuthorize
    \/ SgroupsReturn

SpecSgRun == InitSgRun /\ [][NextSgRun]_vars

\* ------------------------------------------------------------------------
\* Properties of the worker pools
\* ------------------------------------------------------------------------

\* C1: the per-node function is never begun twice for a node, and when the
\* dispatching call has returned it has been begun exactly once and has
\* returned exactly once for every node of the set, failed or not.
C1_ExactlyOnce ==
    /\ \A n \in Nodes : calls[n] <= 1 /\ returns[n] <= calls[n]
    /\ \A n \in Nodes \ targets : calls[n] = 0
    /\ ppc = "returned" =>
         \A n \in targets : calls[n] = 1 /\ returns[n] = 1

\* C1 witness: a dispatch of more nodes than workers, one of them failing,
\* has returned.
C1_Witness ==
    /\ ppc = "returned"
    /\ Cardinality(targets) > concurrent
    /\ concurrent > 1
    /\ failing # {}
    /\ failing # targets

\* C2: the invocations in progress never outnumber the concurrency
\* parameter.
C2_AtMostConcurrent == Cardinality(InCall) <= concurrent

\* C2 witness: the ceiling is reached while nodes are still waiting to be
\* sent.
C2_Witness ==
    /\ Cardinality(InCall) = concurrent
    /\ concurrent > 1
    /\ toQueue # {}

\* C3: a dispatch always terminates: as long as the dispatching call has
\* not returned with every worker gone, some goroutine can take a step
\* (nothing is blocked forever and the run does not end early).
C3_Terminates ==
    \/ ppc = "returned" /\ \A w \in WorkerIds : wpc[w] \in {"none", "exited"}
    \/ ENABLED NextDispatch

\* C4: the dispatching operation returns a non-nil error exactly when some
\* per-node invocation failed.
C4_ErrorReturned ==
    ppc = "returned" => (ret = "err" <=> failing # {})

\* ------------------------------------------------------------------------
\* Properties of the region cache
\* ------------------------------------------------------------------------
Got(c) == callers[c].pc \notin {"idle", "send", "wait"}
Holding(c) == callers[c].pc \in {"have", "create", "insert", "inserting"}
GotFor(r) == {c \in Callers : Got(c) /\ callers[c].name = r}
FailedFor(r) == {c \in GotFor(r) : callers[c].err.kind \in {"keys", "groups"}}

\* C5: as long as no fetch for a region has failed, at most one key-list
\* fetch and one group-list fetch are made for it, and every caller that has
\* its answer has the one Region object the loop keeps for that region (the
\* populate having run exactly once); two regions never share an object.
C5_SingleFlight ==
    /\ \A r \in RegionNames :
         ~counters.fetchFailed[r] =>
           /\ counters.keyFetches[r] <= 1
           /\ counters.groupFetches[r] <= 1
           /\ \A c \in GotFor(r) :
                /\ callers[c].err.kind \notin {"keys", "groups"}
                /\ callers[c].ptr # 0
                /\ callers[c].ptr = regions[r]
                /\ counters.keyFetches[r] = 1
                /\ counters.groupFetches[r] = 1
    /\ \A r1, r2 \in RegionNames :
         (r1 # r2 /\ regions[r1] # 0) => regions[r1] # regions[r2]

\* C5 witness: two callers asked for the same region while neither had an
\* answer, no fetch failed, and both have the region.
C5_Witness ==
    \E c1, c2 \in Callers :
      /\ c1 # c2
      /\ {c1, c2} \in overlap
      /\ Got(c1) /\ Got(c2)
      /\ callers[c1].ptr # 0
      /\ callers[c1].ptr = callers[c2].ptr
      /\ ~counters.fetchFailed[callers[c1].name]

C8_NoMixedSnapshot ==
    \A c \in Callers :
      (Holding(c) /\ callers[c].ptr # 0) =>
        /\ heap[callers[c].ptr].Keys.gen = heap[callers[c].ptr].SGroups.gen
        /\ heap[callers[c].ptr].Keys.gen # 0
        /\ ~(rf.pc # "idle" /\ rf.obj = callers[c].ptr)

\* C8 witness: Refresh has replaced the key map of a region and not yet
\* its group map, while a reader has called in for that very region.
C8_Witness ==
    /\ rf.pc = "commit"
    /\ heap[rf.obj].Keys.gen # heap[rf.obj].SGroups.gen
    /\ \E c \in Callers :
         /\ callers[c].pc = "send"
         /\ callers[c].name = heap[rf.obj].name

\* C9 as claimed: of two RegionSGEnsureExists calls in progress for one
\* region, only one has made the create call.
C9_CreatedOnce ==
    \A c1, c2 \in Callers :
      ( /\ c1 # c2
        /\ callers[c1].name = callers[c2].name
        /\ callers[c1].pc \in {"insert", "inserting"}
        /\ InProgress(c2) )
      => ~callers[c2].made

\* ------------------------------------------------------------------------
\* Properties of Region.Refresh
\* ------------------------------------------------------------------------

\* C7: while the fetches run the region's maps are untouched; the maps
\* are replaced only when both fetches succeeded; if either failed Refresh
\* returns an error and the region holds what it held before the call,
\* otherwise it returns nil and the region holds the two new maps.
C7_CommitOnlyIfBoth ==
    /\ rf.pc = "fetch" => heap[rf.obj] = rf.prior
    /\ rf.pc = "commit" => ~rf.kerr /\ ~rf.gerr
    /\ rf.pc = "returned" =>
         IF rf.kerr \/ rf.gerr
           THEN /\ rf.ret # NoErr
                /\ heap[rf.obj] = rf.prior
           ELSE /\ rf.ret = NoErr
                /\ heap[rf.obj].Keys = [gen |-> rf.gen, m |-> rf.rKeys]
                /\ heap[rf.obj].SGroups = [gen |-> rf.gen, m |-> rf.rSgroups]

\* C7 witness: on a region that already had maps, exactly one of the two
\* fetches failed, the other brought a map different from the one in
\* place, and Refresh has returned.
C7_Witness ==
    /\ rf.pc = "returned"
    /\ rf.by = "direct"
    /\ rf.prior.Keys.gen # 0
    /\ rf.kerr /\ ~rf.gerr
    /\ rf.rSgroups # rf.prior.SGroups.m

\* ------------------------------------------------------------------------
\* Properties of Node.Update
\* ------------------------------------------------------------------------
Ambiguous == ~upd.failed /\ (upd.nres > 1 \/ upd.ninst > 1)

\* C10 as claimed: after an Update whose answer held more than one
\* reservation or more than one instance, Update has returned an error and
\* node.Instance is what it was before the call.
C10_HandleUnchanged ==
    (upd.ret # "none" /\ Ambiguous) =>
      /\ upd.ret = "unexpected number"
      /\ node.Instance = upd.prev

\* C10 amended: after an Update whose answer held more than one
\* reservation or more than one instance, Update has returned an error and
\* node.Instance is nil, whatever it was before the call: none of the
\* instances of the answer is picked.
C10_HandleCleared ==
    (upd.ret # "none" /\ Ambiguous) =>
      /\ upd.ret = "unexpected number"
      /\ node.Instance = NoInstance

\* C10 witness: the node had an instance, the answer held two
\* reservations, Update returned the error.
C10_Witness ==
    /\ upd.ret = "unexpected number"
    /\ upd.nres > 1
    /\ upd.prev # NoInstance

\* ------------------------------------------------------------------------
\* Properties of Node.Start and Node.Terminate
\* ------------------------------------------------------------------------
StartedNotRunning ==
    /\ lastOp.name = "Start"
    /\ ~IsRunning(lastOp.prev.Instance)
    /\ lastOp.cache.up

\* C11: after a Start on a node that was not running, with the node's key
\* or its security group missing from the region the cache gave, Start has
\* returned the error that names the missing one (the key first), no
\* RunInstances call was made and node.Instance is nil.
C11_FailsFast ==
    /\ (StartedNotRunning /\ ~lastOp.cache.key) =>
         /\ lastOp.ret = "key is not available locally"
         /\ lastOp.run = 0 /\ lastOp.tags = 0
         /\ node.Instance = NoInstance
         /\ node = lastOp.prev
    /\ (StartedNotRunning /\ lastOp.cache.key /\ ~lastOp.cache.sg) =>
         /\ lastOp.ret = "security group is not available"
         /\ lastOp.run = 0 /\ lastOp.tags = 0
         /\ node.Instance = NoInstance
         /\ node = lastOp.prev

\* C11 witness: a Start with the key present and the group missing, on a
\* node that has no instance although EC2 holds a terminated one, has
\* returned the error about the group.
C11_Witness ==
    /\ StartedNotRunning
    /\ lastOp.cache.key /\ ~lastOp.cache.sg
    /\ lastOp.ret = "security group is not available"
    /\ \E i \in InstanceIds : ec2[i] = 48

\* C12: after a Start on a node whose instance was pending or running,
\* Start has returned nil, made neither a RunInstances nor a CreateTags
\* call, has not crashed, and the node is what it was.
C12_StartNoop ==
    ( /\ lastOp.name = "Start"
      /\ lastOp.prev.Instance.InstanceId # 0
      /\ lastOp.prev.Instance.Code \in {0, 16} ) =>
      /\ lastOp.ret = "nil"
      /\ lastOp.run = 0 /\ lastOp.tags = 0
      /\ node = lastOp.prev
      /\ ~crashed

\* C12 witness: Start returned on a node whose instance was pending when
\* Update saw it and has been terminated on EC2 since.
C12_Witness ==
    /\ lastOp.name = "Start"
    /\ lastOp.prev.Instance # NoInstance
    /\ lastOp.prev.Instance.Code = 0
    /\ ec2[lastOp.prev.Instance.InstanceId] = 48
    /\ lastOp.ret = "nil"

\* C13: after a Terminate on a node that was not running, it has returned
\* an error, made no TerminateInstances call and left the node alone;
\* on a running node it has asked for the termination of exactly the
\* node's instance, and node.Instance is nil if the call succeeded and
\* unchanged, with the error returned, if it failed.
C13_Terminate ==
    lastOp.name = "Terminate" =>
      IF ~IsRunning(lastOp.prev.Instance)
        THEN /\ lastOp.ret = "node not running"
             /\ lastOp.term = {}
             /\ node = lastOp.prev
        ELSE /\ lastOp.term = {lastOp.prev.Instance.InstanceId}
             /\ lastOp.ok => /\ lastOp.ret = "nil"
                         /\ node.Instance = NoInstance
             /\ ~lastOp.ok => /\ lastOp.ret = "terminate error"
                          /\ node = lastOp.prev

\* C13 witness: the TerminateInstances call for the node's running
\* instance failed and Terminate returned the error.
C13_Witness ==
    /\ lastOp.name = "Terminate"
    /\ IsRunning(lastOp.prev.Instance)
    /\ lastOp.prev.Instance.Code = 16
    /\ ~lastOp.ok
    /\ lastOp.ret = "terminate error"
    /\ node.Instance = lastOp.prev.Instance

\* ------------------------------------------------------------------------
\* Properties of the waits
\* ------------------------------------------------------------------------

\* C14 as claimed: a query of waitForRunning that is not its first one was
\* made after a sleep.
C14_SleepBetweenPolls == wt.last = "poll" => wt.gap # "none"

\* C15 as claimed: after a poll of waitForRunning that saw the instance
\* pending the loop polls again; after one that saw it running the shell
\* wait is under way or over; after any other (Update failed, no matching
\* instance, any other state) waitForRunning has returned an error, and
\* the process has not crashed.
C15_PollOutcomes ==
    wt.last = "poll" =>
      CASE wt.saw = "pending" -> wt.pc = "poll" /\ ~crashed
        [] wt.saw = "running" -> wt.pc = "ssh" /\ ~crashed
        [] OTHER -> /\ ~crashed
                    /\ wt.pc = "done"
                    /\ wt.ret \notin {"nil", "none"}

\* C16 as claimed: waitForSsh makes at most 10 attempts, returns the
\* timeout error after the tenth failure, sleeps between two attempts, and
\* goes on to the boot-completion probe when an attempt succeeds.
C16_TenAttempts ==
    /\ wt.attempts <= 10
    /\ wt.ret = "wait for SSH timed out" => wt.attempts = 10
    /\ wt.last = "attempt" => wt.gap # "none"
    /\ (wt.last = "attempt" /\ node.SshClient # 0) => wt.pc = "probe"

\* C17: in waitForCloudInit a probe that ended with a non-zero exit status
\* is followed by a sleep and another probe, however many probes were
\* made; after a probe that succeeded waitForCloudInit has returned nil;
\* after any other error it has returned that error; every probe but the
\* first comes after a sleep.
C17_BootProbe ==
    /\ wt.lastProbe = "exit" => wt.pc \in {"probeSleep", "probe"}
    /\ wt.lastProbe = "ok" =>
         /\ wt.pc \in {"keys", "done"}
         /\ wt.pc = "done" => wt.ret = "nil"
    /\ wt.lastProbe \in {"session", "transport"} =>
         /\ wt.pc = "done"
         /\ wt.ret = wt.lastProbe
    /\ wt.last = "probe" => wt.gap # "none"

\* C17 witness: after as many probes as are counted, the last one again
\* with a non-zero exit status, the sleep is over and the next probe is
\* about to be made.
C17_Witness ==
    /\ wt.probes = MaxProbes
    /\ wt.lastProbe = "exit"
    /\ wt.pc = "probe"
    /\ wt.slept
    /\ wt.gap = "slept"

\* ------------------------------------------------------------------------
\* Properties of launch
\* ------------------------------------------------------------------------
NoneInvoked == \A n \in Nodes : calls[n] = 0
NoWorker == \A w \in WorkerIds : wpc[w] = "none"
NoInstanceMade == \A i \in InstanceIds : ec2[i] = -1

\* C18: when no node has the saltmaster role, launch makes no instance,
\* starts no worker and invokes no per-node function, and what it
\* returns is an error.
C18_NoMaster ==
    wt.found = "none" =>
      /\ NoInstanceMade
      /\ node = NewNode
      /\ NoWorker
      /\ NoneInvoked
      /\ ppc \in {"ensure", "returned"}
      /\ ppc = "returned" => ret = "err"

\* C18 witness: launch has returned the error with targets configured and
\* no saltmaster among the nodes.
C18_Witness ==
    /\ wt.found = "none"
    /\ ppc = "returned"
    /\ ret = "err"
    /\ Cardinality(targets) > 1

\* C19 as claimed: when a step of bringing the master up has failed (its
\* Update, its Start, one of the waits, or the distribution of its keys)
\* no per-node function is invoked for any minion and what launch returns
\* is an error.
C19_MasterFailureAborts ==
    ( /\ wt.found = "saltmaster"
      /\ wt.pc = "done"
      /\ (wt.ret # "nil" \/ wt.keys = "failed") ) =>
      /\ NoneInvoked
      /\ ppc = "returned" => ret = "err"

\* C20: whenever launch is past ensureMaster and the connection to the
\* master (workers started, a minion's function invoked, or launch
\* returned nil), the master was seen running, the shell attempt and the
\* boot probe succeeded, distributeKeys has been run to its end, and the
\* master has its instance and its connection.
C20_MasterFirst ==
    (ppc \in {"spawn", "enqueue", "join"} \/ ~NoneInvoked \/ ~NoWorker
       \/ (ppc = "returned" /\ ret = "nil")) =>
      /\ wt.pc = "done"
      /\ wt.ret = "nil"
      /\ wt.saw = "running"
      /\ wt.lastProbe = "ok"
      /\ wt.keys \in {"distributed", "failed"}
      /\ node.Instance # NoInstance
      /\ node.SshClient = node.Instance.InstanceId

\* C20 witness: a minion's function has been invoked after the master had
\* to be polled, dialled and probed more than once each.
C20_Witness ==
    /\ ~NoneInvoked
    /\ wt.polls > 1
    /\ wt.attempts > 1
    /\ wt.probes > 1
    /\ wt.keys = "distributed"

\* ------------------------------------------------------------------------
\* Properties of launchNode and teardownNode under their pools
\* ------------------------------------------------------------------------

\* C21: a failure at any step of one minion's launchNode (Update, Start,
\* the readiness pipeline, the distribution of the keys) is reported for
\* that minion and leaves the process, and with it the launchNode of every
\* other minion, running.
C21_FailureIsolated ==
    disp = "launch" =>
      \A n \in Nodes :
        mn[n].failed # "none" => mn[n].printed /\ ~crashed

\* C22: teardown calls Update once for every target and Terminate at most
\* once, only for a node whose Update returned nil; every failure is
\* printed, and when teardown returns every target has been through
\* teardownNode, whatever happened to the others.
C22_Teardown ==
    disp = "teardown" =>
      /\ ~crashed
      /\ \A n \in Nodes :
           /\ calls[n] <= 1
           /\ mn[n].updates = (IF mn[n].pc = "idle" THEN 0 ELSE 1)
           /\ mn[n].terminates <= 1
           /\ mn[n].terminates = 1 =>
                mn[n].updates = 1 /\ mn[n].failed # "update"
           /\ mn[n].failed # "none" => mn[n].printed
      /\ ppc = "returned" =>
           \A n \in targets :
             /\ calls[n] = 1
             /\ mn[n].pc = "done"
             /\ mn[n].failed # "update" => mn[n].terminates = 1

\* teardown has returned; one node's Update failed, another node's
\* Terminate failed and a third node was terminated
C22_Witness ==
    /\ disp = "teardown"
    /\ ppc = "returned"
    /\ \E a, b, c \in targets :
         /\ mn[a].failed = "update" /\ mn[a].terminates = 0
         /\ mn[b].failed = "terminate"
         /\ mn[c].failed = "none" /\ mn[c].terminates = 1

\* ------------------------------------------------------------------------
\* Properties of parseSGRule
\* ------------------------------------------------------------------------
Supported(parts) == checkProto(parts[1]) # "Unknown protocol"

NumberIn(t, lo, hi) == Atoi(t).ok /\ Atoi(t).val \in lo..hi

\* what the port fields of a rule must be, protocol by protocol
PortFieldsValid(parts) ==
    LET from == PortArgs(parts)[1]
        to == PortArgs(parts)[2]
    IN  IF parts[1] = Word("icmp")
          THEN /\ from \in {Word("*"), Word("echo_reply"), <<"0">>,
                            Word("echo_request"), Word("ping"), <<"8">>}
               /\ to \in {Word("*"), <<>>, <<"-", "1">>}
          ELSE /\ NumberIn(from, 1, 65535)
               /\ to = <<>> \/ NumberIn(to, Atoi(from).val, 65535)

Parsed == fw.pc = "parsed" /\ Len(fw.parts) \in 2..4 /\ Supported(fw.parts)

\* C25: a rule of the two-field form proto:match is accepted, without a
\* compile error, for each of tcp, udp, tcp/udp and icmp.
C25_TwoFieldAccepted ==
    Parsed /\ Len(fw.parts) = 2 => fw.res.err = "nil"

\* the permissions a rule stands for: one for each protocol and match
Wanted(parts, nodeGroups) ==
    {<<Protocols(parts[1])[i], m>> :
       i \in 1..Len(Protocols(parts[1])),
       m \in Matches(parts[Len(parts)], nodeGroups)}

\* C26: a rule expands to exactly one permission for every pair of a
\* protocol (tcp and udp for tcp/udp) and a match (for "*", every group
\* name of the configuration, that group being the only source), the
\* two-field rules such as tcp:* included.
C26_Expansion ==
    /\ Parsed
    /\ Len(fw.parts) = 2 \/ PortFieldsValid(fw.parts)
    /\ ~fw.res.fatal
    => /\ fw.res.err = "nil"
       /\ Len(fw.res.perms) = Cardinality(Wanted(fw.parts, fw.nodeGroups))
       /\ \A pm \in Wanted(fw.parts, fw.nodeGroups) :
            \E i \in 1..Len(fw.res.perms) :
              /\ fw.res.perms[i].Protocol = pm[1]
              /\ IF isCIDR(pm[2])
                   THEN /\ fw.res.perms[i].SourceIPs = <<pm[2]>>
                        /\ fw.res.perms[i].SourceGroups = <<>>
                   ELSE /\ fw.res.perms[i].SourceIPs = <<>>
                        /\ fw.res.perms[i].SourceGroups =
                             <<UserSecurityGroup(pm[2])>>
       /\ \A i, j \in 1..Len(fw.res.perms) :
            /\ fw.res.perms[i].FromPort = fw.res.perms[j].FromPort
            /\ fw.res.perms[i].ToPort = fw.res.perms[j].ToPort

Ids(groups) == {g.Id : g \in Range(groups)}

\* C24: contains(w) is true exactly when some live permission has w's
\* protocol and ports and holds every source address and every source
\* group of w, the sources taken as sets; a live permission with the
\* source groups {A, B} contains a wanted one with {A}, not one with
\* {A, C}.
C24_Containment ==
    fw.pc = "answered" =>
      /\ fw.found <=>
           \E p \in Range(fw.perms) :
             /\ p.Protocol = fw.perm.Protocol
             /\ p.FromPort = fw.perm.FromPort
             /\ p.ToPort = fw.perm.ToPort
             /\ Range(fw.perm.SourceIPs) \subseteq Range(p.SourceIPs)
             /\ Ids(fw.perm.SourceGroups) \subseteq Ids(p.SourceGroups)
      /\ /\ Len(fw.perms) = 1
         /\ Ids(fw.perms[1].SourceGroups)
              = Ids(GroupsOf(<<Word("A"), Word("B")>>))
         /\ Ids(fw.perm.SourceGroups)
              = Ids(GroupsOf(<<Word("A"), Word("C")>>))
         => ~fw.found

\* the live permission names the groups B and A, in that order, the
\* wanted one only A: it is contained
C24_Witness ==
    /\ fw.pc = "answered"
    /\ Len(fw.perms) = 1
    /\ fw.perms[1].SourceGroups = GroupsOf(<<Word("B"), Word("A")>>)
    /\ fw.perm.SourceGroups = GroupsOf(<<Word("A")>>)
    /\ fw.found

\* C23: a second reconciliation of a group whose permissions on EC2 hold
\* everything the first one applied finds nothing missing and makes no
\* authorize call.
C23_Idempotent ==
    fw.pc = "sgroups" /\ fw.run = 2 =>
      /\ fw.calls = 0
      /\ fw.missing = <<>>
      /\ \A i \in 1..Len(fw.applied) : contains(fw.live, fw.applied[i])

\* the first run applied permissions, EC2 merged them into its entries,
\* and the second run has ended
C23_Witness ==
    /\ fw.pc = "sgroups"
    /\ fw.run = 2
    /\ ~fw.fatal
    /\ Len(fw.applied) > 1
    /\ Len(fw.live) < Len(fw.applied)

\* ------------------------------------------------------------------------
\* Properties of the Node and its ssh connection
\* ------------------------------------------------------------------------

\* C28: whenever the node holds an ssh client it also holds an instance,
\* and the client was opened to that instance: whatever clears or
\* replaces node.Instance also drops the client.
C28_SessionMatchesInstance ==
    node.SshClient # 0 =>
      /\ node.Instance # NoInstance
      /\ node.SshClient = node.Instance.InstanceId

\* ------------------------------------------------------------------------
\* Properties of the keys a Refresh keeps
\* ------------------------------------------------------------------------

\* C29: when Refresh finds a key already in r.Keys and EC2 reports, colons
\* removed, the fingerprint that key was validated against, the entry is
\* reused and LoadKey is not called for it.
C29_KeyReused ==
    rf.pc # "idle" /\ rf.kdone /\ ~rf.kerr =>
      \A kp \in remoteKeys :
        /\ kp.name \in DOMAIN rf.prior.Keys.m
        /\ rf.prior.Keys.m[kp.name].Against = StripColons(kp.fp)
        => kp.name \notin rf.loaded

\* the digest LoadKey computes from a key file for a remote fingerprint
Digest(file, fp) == IF Len(fp) > Md5Len THEN file.priv ELSE file.pub

\* C30: a key whose local material does not hash to the fingerprint EC2
\* reports is not in the key map a Refresh builds, and no step of the
\* program changes the key pairs of the account: they change only outside
\* any Refresh, by somebody else's hand.
C30_NoMismatchedKey ==
    /\ [](rf.pc # "idle" /\ rf.kdone /\ ~rf.kerr =>
            \A kp \in remoteKeys :
              /\ ~localKeys[kp.name].present
                   => kp.name \notin DOMAIN rf.rKeys
              /\ /\ localKeys[kp.name].present
                 /\ Digest(localKeys[kp.name], StripColons(kp.fp))
                      # StripColons(kp.fp)
                 => kp.name \notin DOMAIN rf.rKeys)
    /\ [][remoteKeys' # remoteKeys => rf.pc = "idle" /\ rf' = rf]_vars

\* the account has the key ops, the file ops.pem holds another key, and
\* the Refresh has built its key map
C30_Witness ==
    /\ rf.pc # "idle" /\ rf.kdone /\ ~rf.kerr
    /\ \E kp \in remoteKeys :
         /\ localKeys[kp.name].present
         /\ Digest(localKeys[kp.name], StripColons(kp.fp))
              # StripColons(kp.fp)
         /\ kp.name \notin DOMAIN rf.rKeys
         /\ kp.name \in rf.loaded

\* ------------------------------------------------------------------------
\* Properties of sgroups with the region cache
\* ------------------------------------------------------------------------
NodeGroups == {n.SGroup : n \in Range(fw.targets)}

\* the permission a rule asks for, for one protocol and one match, with the
\* groups of a region as the cache holds them
WantedPerm(protocol, head, m, groups) ==
    [Protocol |-> protocol, FromPort |-> head.fromPort,
     ToPort |-> head.toPort,
     SourceIPs |-> IF isCIDR(m) THEN <<m>> ELSE <<>>,
     SourceGroups |-> IF isCIDR(m) THEN <<>>
                      ELSE <<SourceGroup(groups[m])>>]

\* the last parseSGRule call returned permissions
Compiles == fw.last.err = "nil" /\ ~fw.last.fatal

WantedOf(name, regionId) ==
    UNION {{WantedPerm(p, ParseHead(rule), m, fw.cache[regionId]) :
              p \in Range(Protocols(ParseHead(rule).protocol)),
              m \in Matches(ParseHead(rule).match, NodeGroups)} :
           rule \in Range(fw.conf[name])}

\* the permissions EC2 reported for a group when the region was populated
ReportedPerms(name, regionId) ==
    IF name \in DOMAIN fw.remote[regionId]
      THEN fw.remote[regionId][name].IPPerms
      ELSE <<>>

\* C32: sgroups calls AuthorizeSecurityGroup at most once for a group; the
\* call is made only when every rule of the group compiled, its list is
\* not empty and holds exactly the wanted permissions that the group's
\* permissions do not contain; a group that was set up without a call
\* lacked none.
C32_OneBatchPerGroup ==
    /\ \A a, b \in 1..Len(fw.auths) :
         (fw.auths[a].name = fw.auths[b].name
            /\ fw.auths[a].regionId = fw.auths[b].regionId) => a = b
    /\ \A a \in 1..Len(fw.auths) :
         LET call == fw.auths[a]
         IN  /\ \A rule \in Range(fw.conf[call.name]) :
                  ParseHead(rule).err = "nil"
             /\ call.perms # <<>>
             /\ Range(call.perms) =
                  {q \in WantedOf(call.name, call.regionId) :
                     ~contains(ReportedPerms(call.name, call.regionId), q)}
    /\ (fw.pc = "node" /\ fw.i > 1) =>
         LET done == fw.targets[fw.i - 1]
         IN  (done.SGroup \in fw.setup_groups
                /\ \A a \in 1..Len(fw.auths) :
                     fw.auths[a].name # done.SGroup)
             => \A q \in WantedOf(done.SGroup, fw.seen_groups[done.SGroup]
                                                 .RegionId) :
                  contains(ReportedPerms(done.SGroup,
                             fw.seen_groups[done.SGroup].RegionId), q)

\* two groups were set up, the first without a call, the second with one
C32_Witness ==
    /\ fw.pc = "returned"
    /\ Cardinality(fw.setup_groups) = 2
    /\ Len(fw.auths) = 1
    /\ fw.auths[1].name = fw.targets[2].SGroup
    /\ fw.auths[1].perms = <<WantedPerm(Word("tcp"),
                                       [fromPort |-> 8, toPort |-> 8],
                                       Word("A"),
                                       fw.cache[fw.auths[1].regionId])>>

\* the permissions a group has on EC2 now
LiveOf(name, regionId) ==
    IF name \in DOMAIN fw.live[regionId] THEN fw.live[regionId][name]
    ELSE <<>>

\* C33: when sgroups returns, the group of every target node exists in the
\* node's region and has every permission its rules in the configuration
\* file ask for.
C33_EveryNodeSetUp ==
    fw.pc = "returned" =>
      \A k \in 1..Len(fw.targets) :
        LET n == fw.targets[k]
        IN  /\ n.RegionId \in DOMAIN fw.cache
            /\ n.SGroup \in DOMAIN fw.cache[n.RegionId]
            /\ n.SGroup \in DOMAIN fw.conf =>
                 \A q \in WantedOf(n.SGroup, n.RegionId) :
                   contains(LiveOf(n.SGroup, n.RegionId), q)

\* C39: a parseSGRule call for a rule that the switch on len(parts), the
\* protocol check or the port check rejects makes no CreateSecurityGroup
\* call and leaves the region cache, the groups on EC2 and the list of
\* missing permissions as they were.
C39_RejectedRuleNoEffect ==
    [][(/\ fw.pc = "rule"
        /\ fw.j <= Len(fw.conf[fw.sg.Name])
        /\ ParseHead(fw.conf[fw.sg.Name][fw.j]).err # "nil")
       => /\ fw'.cache = fw.cache
          /\ fw'.creates = fw.creates
          /\ fw'.live = fw.live
          /\ fw'.auths = fw.auths
          /\ fw'.missingPerms = fw.missingPerms
          /\ fw'.last.calls = <<>>
          /\ fw'.last.perms = <<>>
          /\ fw'.last.err = ParseHead(fw.conf[fw.sg.Name][fw.j]).err]_vars

\* the second rule of a group was rejected after the first had made the
\* group it names
C39_Witness ==
    /\ fw.pc = "fatal"
    /\ fw.last.err = "Unknown protocol"
    /\ fw.last.calls = <<>>
    /\ fw.j = 2
    /\ fw.creates = <<<<fw.last.regionId,
                         fw.last.parts[Len(fw.last.parts)]>>>>

\* ------------------------------------------------------------------------
\* Properties of launchNode
\* ------------------------------------------------------------------------
KeyPcs == {"keys", "masterUpload", "accept", "nodePub", "nodePem",
           "restart", "info"}

\* the steps of one node's launch come in the order of the code: the polls
\* follow a Start that returned nil, the ssh attempts a poll that saw
\* "running", the probes an opened connection, distributeKeys a probe that
\* succeeded, and the calls of distributeKeys the order of its statements
LaunchOrder ==
    /\ (wt.pc = "poll" /\ wt.polls = 0) =>
         (lastOp.name = "Start" /\ lastOp.ret = "nil")
    /\ wt.pc \in {"ssh", "sshSleep", "probe", "probeSleep"} \cup KeyPcs =>
         wt.saw = "running"
    /\ wt.pc \in {"probe", "probeSleep"} =>
         (wt.attempts >= 1 /\ node.SshClient # 0)
    /\ wt.pc \in KeyPcs => wt.lastProbe = "ok"
    /\ fw.steps # <<>> => wt.lastProbe = "ok"
    /\ \A k \in 1..Len(fw.steps) : fw.steps[k].call = KeyCalls[k]

\* C34: the steps of one node's launch come in the stated order, and the
\* upload of the public key to the master, the salt-key command, the two
\* uploads to the node and the restart of the minion each begin only after
\* the step before them has succeeded.
C34_StrictSequence ==
    /\ LaunchOrder
    /\ \A k \in 3..Len(fw.steps) : fw.steps[k - 1].ok

\* C35: in a launch run the master is never handed to launchNode, and
\* RunInstances is called at most once for every node, the master
\* included.
C35_MasterNotDispatched ==
    /\ fw.master # 0 => calls[fw.master] = 0
    /\ \A n \in Nodes : mn[n].runs <= 1

\* the master was one of the targets and was started by ensureMaster;
\* launch has returned after another node was started by launchNode
C35_Witness ==
    /\ ppc = "returned"
    /\ fw.wasTarget
    /\ mn[fw.master].runs = 1
    /\ \E n \in Nodes \ {fw.master} : calls[n] = 1 /\ mn[n].runs = 1

\* ------------------------------------------------------------------------
\* Properties of Node.Start with ApplyTags
\* ------------------------------------------------------------------------
\* Start up to its last statement: what holds of every error returned
\* before ApplyTags is reached
StartErrorBeforeTags ==
    ( /\ lastOp.name = "Start"
      /\ lastOp.ret \notin {"nil", "failed to apply tags"} ) =>
      /\ lastOp.tags = 0
      /\ node = lastOp.prev

\* C36: after a Start that returned an error no instance was created by
\* the call and node.Instance is what it was before; and an instance that
\* Start has stored in node.Instance has been created and carries the
\* node's Name tag.
C36_ErrorMeansNoInstance ==
    /\ (lastOp.name = "Start" /\ lastOp.ret # "nil") =>
         /\ lastOp.tags = 0
         /\ node.Instance = lastOp.prev.Instance
    /\ (lastOp.name = "Start" /\ node.Instance # lastOp.prev.Instance) =>
         /\ node.Instance # NoInstance
         /\ node.Instance.InstanceId \notin untagged

\* ------------------------------------------------------------------------
\* Properties of pForEachValue's accesses to the map
\* ------------------------------------------------------------------------
\* with one worker the writes of the map follow one another
OneWorkerWritesAlone ==
    concurrent = 1 => Cardinality(mapWriters) <= 1

\* C37: when pForEachValue passes by reference (the function takes a
\* pointer and the map holds values), no two workers are inside the map
\* at the same time: at most one worker is inside SetMapIndex, and the
\* run of the workers is not ended by an overlapping access.
C37_MapAccessExclusive ==
    (disp = "pForEachValue" /\ passByRef /\ ~valIsPtr) =>
      /\ Cardinality(mapWriters) <= 1
      /\ ~crashed

\* ------------------------------------------------------------------------
\* Properties of GetRegion with regionCacheLoop
\* ------------------------------------------------------------------------
\* what the loop is about to send: the region it keeps for the name, or
\* an error for a name it keeps no region for
ReplyInHand ==
    loop.pc = "reply" =>
      /\ callers[loop.req].pc = "wait"
      /\ LET name == callers[loop.req].name
         IN  IF loop.err = NoErr
               THEN loop.region # 0 /\ loop.region = regions[name]
               ELSE loop.region = 0 /\ regions[name] = 0

\* C38: every GetRegion request is answered and its caller returns; the
\* loop always finds the caller waiting for the reply it is about to
\* send, answers a failed populate with the error while keeping no region
\* for that name, and a caller that has returned is not answered again.
C38_EveryRequestAnswered ==
    /\ \A c \in Callers : Pending(c) ~> (callers[c].pc = "done")
    /\ []ReplyInHand
    /\ \A c \in Callers :
         [](callers[c].pc = "done" => [](callers[c].pc = "done"))

\* C38 witness: a caller was answered with a populate error for a region,
\* and a caller that asked for the same region after that has returned
\* with the region.
C38_Witness ==
    \E c1, c2 \in Callers :
      /\ c1 # c2
      /\ callers[c1].name = callers[c2].name
      /\ {c1, c2} \notin overlap
      /\ callers[c1].pc = "done" /\ callers[c1].err # NoErr
      /\ callers[c2].pc = "done" /\ callers[c2].err = NoErr
      /\ callers[c2].ptr # 0
      /\ callers[c2].ptr = regions[callers[c2].name]

\* ------------------------------------------------------------------------
\* Properties of the master node while the workers run
\* ------------------------------------------------------------------------
\* a node has been handed to a worker and launch has not returned
DispatchUnderWay ==
    /\ ppc \in {"enqueue", "join"}
    /\ \E n \in Nodes : calls[n] > 0

\* C40: from the first hand-over of a node to a worker until the workers
\* have been joined, the master's node.Instance and node.SshClient are not
\* nil, and no step taken in that time assigns to the master node.
C40_MasterHeld ==
    /\ [](DispatchUnderWay =>
            node.Instance # NoInstance /\ node.SshClient # 0)
    /\ [][DispatchUnderWay => node' = node]_vars

\* C40 witness: launch has returned after two workers' nodes went through
\* the upload to the master and the salt-key command on it.
C40_Witness ==
    /\ ppc = "returned"
    /\ ret = "nil"
    /\ \E n1, n2 \in Nodes :
         /\ n1 # n2
         /\ mn[n1].pc = "keys" /\ returns[n1] = 1
         /\ mn[n2].pc = "keys" /\ returns[n2] = 1
    /\ node.SshClient # 0
    /\ node.SshClient = node.Instance.InstanceId

====
